---- MODULE Spec2Model ----
(***************************************************************************)
(* A model of the core pipeline of the Sia static-site generator:          *)
(*   - plugin ordering               (src/lib/plugins.js)                  *)
(*   - the build orchestrator        (src/lib/build.js)                    *)
(*   - site-data assembly            (src/lib/collections.js)              *)
(*   - content loading               (src/lib/content.js)                  *)
(* The hook dispatcher (lib/hooks.js) is modelled from its specification.  *)
(***************************************************************************)
EXTENDS Integers, Sequences, FiniteSets, TLC

(***************************************************************************)
(* Bounds of the model                                                     *)
(***************************************************************************)
\* longest dependencies array of a plugin handed to orderPlugins
MaxDeps == 2
\* longest config.plugins.order array
MaxOrder == 2
\* longest dependencies array when config.plugins.order is an array (that
\* branch of orderPlugins never reads the dependencies)
MaxOrderDeps == 1
\* number of times build() is run, one run after the other, in the process
MaxBuilds == 2
\* paginate: at most this many items, and page sizes up to this
MaxItems == 4
MaxPageSize == 3
\* sort: at most this many items
MaxSortItems == 4
\* buildTagCollections: at most this many tags on an item
MaxTags == 2
\* buildSiteData: config.pagination.size
TagPageSize == 2
\* file names of at most this many pieces
MaxNameLen == 3
\* permalink and path templates of at most this many pieces
MaxTemplateLen == 3

(***************************************************************************)
(* Names                                                                   *)
(***************************************************************************)
\* names of the plugins handed to orderPlugins, in discovery order
PluginSeq == <<"p1", "p2", "p3">>
PluginNames == {PluginSeq[i] : i \in 1..Len(PluginSeq)}
\* a name that no loaded plugin carries
MissingName == "px"
AllNames == PluginNames \cup {MissingName}
\* config.plugins.order: an array of names, or not set
NoOrder == [isArray |-> FALSE, names |-> <<>>]
OrderArray(names) == [isArray |-> TRUE, names |-> names]

SeqsUpTo(S, n) == UNION {[1..k -> S] : k \in 0..n}
Range(s) == {s[i] : i \in 1..Len(s)}

VARIABLES
    inPlugins,      \* orderPlugins: the argument plugins (loaded plugins, discovery order)
    inOrder,        \* orderPlugins: config.plugins.order, or NoOrder
    orderDone,      \* orderPlugins has returned
    outOrdered,     \* orderPlugins: the returned list (names)
    outWarnings,    \* orderPlugins: the console.warn calls it made
    outCalls        \* orderPlugins: number of visit() invocations

VARIABLES
    buildNo,        \* number of build() calls made in this process
    pc,             \* what build() is awaiting: a phase or the hook being fired
    options,        \* build(options)
    config,         \* the configuration object loaded by loadConfig
    hooks,          \* hooks.js: the registry, hook name -> handlers in registration order
    discovered,     \* loadPlugins: the modules found by discoverPlugins
    loadedPlugins,  \* build: plugins, the loaded plugins in the order loadPlugins returned
    firing,         \* executeHook: the firing in progress
    log,            \* what the build has done so far, in order
    tasks,          \* loadCollection: the per-file callbacks handed to Promise.all
    collections     \* loadAllCollections: collection name -> items

VARIABLES
    pgItems,        \* paginate: the argument items
    pgSize,         \* paginate: the argument pageSize
    pgBaseUrl,      \* getPaginationUrls: the argument baseUrl
    pgBasePath,     \* getPaginationUrls: the argument basePath
    pgPc,           \* which of the two functions has returned
    pgPages,        \* paginate: the returned pages
    pgUrls          \* getPaginationUrls: the object returned for each page

VARIABLES
    stKeys,         \* loadCollection: the sortBy value of each filtered item, in filter order
    stOrder,        \* loadCollection: sortOrder
    stDone,         \* sort has returned
    stResult        \* the filtered items (by their number) after the sort

VARIABLES
    tgCollections,  \* buildTagCollections: collections
    tgDone,         \* buildTagCollections has ended
    tgThrew,        \* it ended with a TypeError
    tgTags,         \* the tags object when it ended, and as handlers leave it
    tgPc,           \* buildSiteData: where it stands
    tgAllTags,      \* buildSiteData: allTags, the buckets by their key
    tgPaginatedTags \* buildSiteData: paginatedTags, key and pages per bucket

VARIABLES
    ctFiles,        \* the markdown files: folder, name, collection, front matter
    ctPermalinks,   \* config.collections[name].permalink
    ctBasePath,     \* config.site.basePath
    ctItems,        \* the items loadCollection made of the files
    ctPathTemplate, \* config.collections[name].path
    ctWalk          \* loadCollection: base path, folder of the stored file, file found

orderVars == <<inPlugins, inOrder, orderDone, outOrdered, outWarnings, outCalls>>
pageVars == <<pgItems, pgSize, pgBaseUrl, pgBasePath, pgPc, pgPages, pgUrls>>
sortVars == <<stKeys, stOrder, stDone, stResult>>
tagVars == <<tgCollections, tgDone, tgThrew, tgTags, tgPc, tgAllTags, tgPaginatedTags>>
contentVars == <<ctFiles, ctPermalinks, ctBasePath, ctItems, ctPathTemplate, ctWalk>>
pureVars == <<pageVars, sortVars, tagVars, contentVars>>
buildVars == <<buildNo, pc, options, config, hooks, discovered, loadedPlugins, firing, log,
               tasks, collections>>
vars == <<orderVars, buildVars, pureVars>>

(***************************************************************************)
(* orderPlugins (src/lib/plugins.js)                                       *)
(***************************************************************************)
\* new Map(plugins.map(p => [p.name, p])).has(name)
PluginMapHas(plugins, name) == \E i \in 1..Len(plugins) : plugins[i].name = name

\* new Map(plugins.map(p => [p.name, p])).get(name): a later entry replaces an earlier one
PluginMapGet(plugins, name) ==
    LET last == CHOOSE i \in 1..Len(plugins) :
                    /\ plugins[i].name = name
                    /\ \A j \in (i+1)..Len(plugins) : plugins[j].name # name
    IN plugins[last]

\* the explicit-order branch: first loop, over explicitOrder
RECURSIVE AddExplicit(_, _, _, _)
AddExplicit(plugins, explicitOrder, i, st) ==
    IF i > Len(explicitOrder) THEN st
    ELSE LET name == explicitOrder[i] IN
         IF PluginMapHas(plugins, name)
         THEN AddExplicit(plugins, explicitOrder, i + 1,
                          [st EXCEPT !.ordered = Append(@, PluginMapGet(plugins, name).name),
                                     !.added = @ \cup {name}])
         ELSE AddExplicit(plugins, explicitOrder, i + 1, st)

\* (an explicit-order branch without the second loop)
AddRemainingDropped(plugins, i, st) == st
\* the explicit-order branch: second loop, over the remaining plugins
RECURSIVE AddRemaining(_, _, _)
AddRemaining(plugins, i, st) ==
    IF i > Len(plugins) THEN st
    ELSE IF plugins[i].name \notin st.added
         THEN AddRemaining(plugins, i + 1, [st EXCEPT !.ordered = Append(@, plugins[i].name)])
         ELSE AddRemaining(plugins, i + 1, st)

OrderState0 == [ordered |-> <<>>, added |-> {}, visiting |-> {}, warnings |-> <<>>, calls |-> 0]

CircularWarning(name) == [kind |-> "circular", plugin |-> name, dep |-> name]
MissingWarning(name, depName) == [kind |-> "missing", plugin |-> name, dep |-> depName]

RECURSIVE Visit(_, _, _)
RECURSIVE VisitDeps(_, _, _, _)

\* a visit that places the plugin before its dependencies
VisitPreOrder(plugins, plugin, st) ==
    LET st0 == [st EXCEPT !.calls = @ + 1] IN
    IF plugin.name \in st0.added THEN st0
    ELSE IF plugin.name \in st0.visiting
         THEN [st0 EXCEPT !.warnings = Append(@, CircularWarning(plugin.name))]
         ELSE LET st1 == [st0 EXCEPT !.visiting = @ \cup {plugin.name},
                                     !.ordered = Append(@, plugin.name),
                                     !.added = @ \cup {plugin.name}]
                  st2 == VisitDeps(plugins, plugin, 1, st1)
              IN [st2 EXCEPT !.visiting = @ \ {plugin.name}]

\* a visit that does not look at the added set
VisitNoAddedCheck(plugins, plugin, st) ==
    LET st0 == [st EXCEPT !.calls = @ + 1] IN
    IF plugin.name \in st0.visiting
    THEN [st0 EXCEPT !.warnings = Append(@, CircularWarning(plugin.name))]
    ELSE LET st1 == [st0 EXCEPT !.visiting = @ \cup {plugin.name}]
             st2 == VisitDeps(plugins, plugin, 1, st1)
         IN [st2 EXCEPT !.visiting = @ \ {plugin.name},
                        !.ordered = Append(@, plugin.name),
                        !.added = @ \cup {plugin.name}]

\* function visit(plugin)
Visit(plugins, plugin, st) ==
    LET st0 == [st EXCEPT !.calls = @ + 1] IN
    IF plugin.name \in st0.added THEN st0
    ELSE IF plugin.name \in st0.visiting
         THEN [st0 EXCEPT !.warnings = Append(@, CircularWarning(plugin.name))]
         ELSE LET st1 == [st0 EXCEPT !.visiting = @ \cup {plugin.name}]
                  st2 == VisitDeps(plugins, plugin, 1, st1)
              IN [st2 EXCEPT !.visiting = @ \ {plugin.name},
                             !.ordered = Append(@, plugin.name),
                             !.added = @ \cup {plugin.name}]

\* for (const depName of plugin.dependencies) inside visit
VisitDeps(plugins, plugin, i, st) ==
    IF i > Len(plugin.dependencies) THEN st
    ELSE LET depName == plugin.dependencies[i] IN
         IF PluginMapHas(plugins, depName)
         THEN VisitDeps(plugins, plugin, i + 1, Visit(plugins, PluginMapGet(plugins, depName), st))
         ELSE VisitDeps(plugins, plugin, i + 1,
                        [st EXCEPT !.warnings = Append(@, MissingWarning(plugin.name, depName))])

\* for (const plugin of plugins) visit(plugin)
RECURSIVE VisitAll(_, _, _)
VisitAll(plugins, i, st) ==
    IF i > Len(plugins) THEN st
    ELSE VisitAll(plugins, i + 1, Visit(plugins, plugins[i], st))

\* orderPlugins(plugins, config), with everything it does: the returned list
\* (ordered), the warnings it logs and the number of visit() invocations
OrderPluginsRun(plugins, explicitOrder) ==
    IF explicitOrder.isArray
    THEN AddRemaining(plugins, 1, AddExplicit(plugins, explicitOrder.names, 1, OrderState0))
    ELSE VisitAll(plugins, 1, OrderState0)

OrderPlugins(plugins, explicitOrder) == OrderPluginsRun(plugins, explicitOrder).ordered

(***************************************************************************)
(* The hook dispatcher (lib/hooks.js)                                       *)
(***************************************************************************)
LifecycleHooks == {"afterConfigLoad", "beforeBuild", "afterContentLoad", "afterTagCollections",
                   "beforeSiteData", "beforeRender", "afterRender", "afterBuild"}
ContentHooks == {"beforeContentParse", "beforeMarkdown", "afterMarkdown", "afterContentParse"}
HookNames == LifecycleHooks \cup ContentHooks
\* what a handler does when it is invoked: return a value, return nothing, throw
Outcomes == {"value", "nothing", "throw"}

\* initializeHooks(): the registry holds no handler
InitializeHooks == [h \in HookNames |-> <<>>]

\* registration of one plugin's hooks; build is the build that registers them
RegisterPlugin(reg, plugin, build) ==
    [h \in HookNames |->
        IF h \in plugin.hooks
        THEN Append(reg[h], [plugin |-> plugin.name, build |-> build, returns |-> plugin.returns])
        ELSE reg[h]]

\* registerPluginHooks(plugins): the plugins' hooks, in the order of the list
RECURSIVE RegisterPluginHooks(_, _, _, _)
RegisterPluginHooks(reg, ps, i, build) ==
    IF i > Len(ps) THEN reg
    ELSE RegisterPluginHooks(RegisterPlugin(reg, ps[i], build), ps, i + 1, build)

\* executeHook: no firing in progress / a firing of hook h that has invoked nothing yet
\* (awaited: some handler of the firing stayed in progress before it settled)
\* the arguments build and buildSiteData give executeHook after the hook name
HookArguments(h) ==
    IF h \in {"afterConfigLoad", "beforeBuild"} THEN <<"config", "pluginAPI">>
    ELSE IF h = "afterTagCollections" THEN <<"tagCollections", "{config, collections}">>
    ELSE <<"siteData", "config", "pluginAPI">>

\* the fields of the context object parseContent gives executeHookWithResult
ContextFields(h) ==
    IF h \in {"beforeMarkdown", "afterMarkdown"}
    THEN {"filePath", "frontMatter", "config", "api"}
    ELSE {"filePath", "config", "api"}

NoFiring == [hook |-> "none", idx |-> 0, running |-> FALSE, awaited |-> FALSE,
             error |-> FALSE, raised |-> FALSE, args |-> <<>>]
\* executeHook(h, ...args): the handlers are called with args
StartFiring(h) == [hook |-> h, idx |-> 1, running |-> FALSE, awaited |-> FALSE,
                   error |-> FALSE, raised |-> FALSE, args |-> HookArguments(h)]

\* executeHook has nothing left to do: every handler has been invoked and has
\* settled, or the firing has raised
FiringComplete ==
    /\ firing.hook # "none"
    /\ ~firing.running
    /\ firing.raised \/ firing.idx > Len(hooks[firing.hook])

\* executeHookWithResult: one step of the fold. A handler that returns a value
\* replaces the accumulator (the value carries the names of the handlers
\* applied to it, in order); one that returns nothing leaves it unchanged
FoldStep(acc, handler) ==
    IF handler.returns = "value" THEN Append(acc, handler.plugin) ELSE acc

\* the whole fold as one expression: handlers applied left to right
RECURSIVE ComposeLeftToRight(_, _, _)
ComposeLeftToRight(handlers, i, value) ==
    IF i > Len(handlers) THEN value
    ELSE ComposeLeftToRight(handlers, i + 1,
            IF handlers[i].returns = "value" THEN Append(value, handlers[i].plugin) ELSE value)

(***************************************************************************)
(* filteredItems.sort(comparator) in loadCollection (src/lib/content.js)   *)
(***************************************************************************)
\* a value of the sortBy field: a Date (v: its time value), an Invalid Date,
\* a string (v: its rank in collation order), or a value of another type
\* (a number, undefined)
DateVal(v) == [type |-> "date", v |-> v]
InvalidDate == [type |-> "invalidDate", v |-> 0]
StringVal(v) == [type |-> "string", v |-> v]
OtherVal == [type |-> "other", v |-> 0]
\* aVal instanceof Date
IsDate(x) == x.type \in {"date", "invalidDate"}

\* (a comparator that ignores sortOrder)
CompareAscending(aVal, bVal, sortOrder) ==
    IF IsDate(aVal) /\ IsDate(bVal)
    THEN IF aVal.type = "invalidDate" \/ bVal.type = "invalidDate" THEN 0 ELSE aVal.v - bVal.v
    ELSE IF aVal.type = "string" /\ bVal.type = "string" THEN aVal.v - bVal.v
    ELSE 0
\* the comparator of loadCollection; the difference with an Invalid Date is
\* NaN, which sort takes as 0
Compare(aVal, bVal, sortOrder) ==
    IF IsDate(aVal) /\ IsDate(bVal)
    THEN IF aVal.type = "invalidDate" \/ bVal.type = "invalidDate" THEN 0
         ELSE IF sortOrder = "desc" THEN bVal.v - aVal.v ELSE aVal.v - bVal.v
    ELSE IF aVal.type = "string" /\ bVal.type = "string"
         THEN IF sortOrder = "desc" THEN bVal.v - aVal.v ELSE aVal.v - bVal.v
         ELSE 0

\* Array.prototype.sort as V8 runs it on an array shorter than its minimum
\* run length: the initial run is found (and reversed if strictly descending),
\* then the rest is placed by binary insertion. The elements are records with
\* a key field.
RECURSIVE RunEnd(_, _, _, _)
RunEnd(a, sortOrder, descending, idx) ==
    IF idx > Len(a) THEN idx - 1
    ELSE LET order == Compare(a[idx].key, a[idx - 1].key, sortOrder) IN
         IF (descending /\ order >= 0) \/ (~descending /\ order < 0) THEN idx - 1
         ELSE RunEnd(a, sortOrder, descending, idx + 1)

CountAndMakeRun(a, sortOrder) ==
    IF Len(a) < 2 THEN [arr |-> a, run |-> Len(a)]
    ELSE LET descending == Compare(a[2].key, a[1].key, sortOrder) < 0
             n == RunEnd(a, sortOrder, descending, 3)
         IN [arr |-> IF descending
                     THEN [p \in 1..Len(a) |-> IF p <= n THEN a[n + 1 - p] ELSE a[p]]
                     ELSE a,
             run |-> n]

\* the position binary insertion gives pivot among a[left], ..., a[right - 1]
RECURSIVE BinarySearch(_, _, _, _, _)
BinarySearch(a, sortOrder, pivot, left, right) ==
    IF left >= right THEN left
    ELSE LET mid == left + ((right - left) \div 2) IN
         IF Compare(pivot.key, a[mid].key, sortOrder) < 0
         THEN BinarySearch(a, sortOrder, pivot, left, mid)
         ELSE BinarySearch(a, sortOrder, pivot, mid + 1, right)

RECURSIVE BinaryInsertionSort(_, _, _)
BinaryInsertionSort(a, sortOrder, start) ==
    IF start > Len(a) THEN a
    ELSE LET pivot == a[start]
             left == BinarySearch(a, sortOrder, pivot, 1, start)
             moved == [p \in 1..Len(a) |->
                          IF p < left \/ p > start THEN a[p]
                          ELSE IF p = left THEN pivot ELSE a[p - 1]]
         IN BinaryInsertionSort(moved, sortOrder, start + 1)

ArraySort(a, sortOrder) ==
    LET r == CountAndMakeRun(a, sortOrder)
    IN BinaryInsertionSort(r.arr, sortOrder, r.run + 1)

\* items.sort(...) where keys[i] is items[i][sortBy]
SortBy(items, keys, sortOrder) ==
    LET sorted == ArraySort([i \in 1..Len(items) |-> [key |-> keys[i], item |-> items[i]]],
                            sortOrder)
    IN [i \in 1..Len(items) |-> sorted[i].item]

(***************************************************************************)
(* Inputs of a build                                                       *)
(***************************************************************************)
\* the plugin files discoverPlugins can find, in discovery order
BuildPluginSeq == <<"p1", "p2">>
BuildPluginNames == {BuildPluginSeq[i] : i \in 1..Len(BuildPluginSeq)}
\* the hooks a plugin module may export
TransformHooks == {"beforeContentParse", "afterMarkdown"}
HookFamilies == {{}, LifecycleHooks, TransformHooks}
\* what a handler of the plugin does when invoked: executeHook discards a
\* returned value, so for a lifecycle handler "value" is "nothing"
OutcomesOf(H) == IF H = TransformHooks THEN Outcomes ELSE Outcomes \ {"value"}
\* the dependencies a plugin module may declare: at most one, on a plugin
\* discovered after it (so that the load order can differ from discovery order)
DependencyChoices(n) ==
    SeqsUpTo({BuildPluginSeq[j] : j \in {i \in 1..Len(BuildPluginSeq) :
                \E k \in 1..(i - 1) : BuildPluginSeq[k] = n}}, 1)

\* what import() of a discovered plugin file yields: a module that fails to
\* load or validate, or a plugin object
BadModule(n) == [name |-> n, valid |-> FALSE, dependencies |-> <<>>, hooks |-> {}, returns |-> "nothing"]
PluginModules(n) ==
    {BadModule(n)} \cup
    {[name |-> n, valid |-> TRUE, dependencies |-> d, hooks |-> {}, returns |-> "nothing"] :
        d \in DependencyChoices(n)} \cup
    UNION {{[name |-> n, valid |-> TRUE, dependencies |-> d, hooks |-> H, returns |-> r] :
                d \in DependencyChoices(n), r \in OutcomesOf(H)} : H \in HookFamilies \ {{}}}

\* discoverPlugins followed by import(): no plugin file, or the first k of them
DiscoveredChoices ==
    UNION {{f \in [1..k -> UNION {PluginModules(n) : n \in BuildPluginNames}] :
                \A i \in 1..k : f[i].name = BuildPluginSeq[i]} : k \in 0..Len(BuildPluginSeq)}

\* the collections of the configuration and the markdown files under each, in
\* enumeration order
CollectionSeq == <<"posts", "pages">>
CollectionFiles == [posts |-> <<"f1", "f2">>, pages |-> <<"f3">>]
Files == {"f1", "f2", "f3"}
\* the date each file resolves to (a day number); the two posts have the
\* same date
FileDate == [f1 |-> 1, f2 |-> 1, f3 |-> 2]

(***************************************************************************)
(* State before the first build                                            *)
(***************************************************************************)
IdleTask == [stage |-> "idle", idx |-> 0, running |-> FALSE, started |-> FALSE,
             arg |-> <<>>, acc |-> <<>>, draft |-> FALSE, result |-> "pending", builds |-> {},
             rank |-> 0]

BuildIdle ==
    /\ buildNo = 0
    /\ pc = "idle"
    /\ options = [devMode |-> FALSE]
    /\ config = [strictMode |-> FALSE, showDrafts |-> FALSE, written |-> FALSE]
    /\ hooks = InitializeHooks
    /\ discovered = <<>>
    /\ loadedPlugins = <<>>
    /\ firing = NoFiring
    /\ log = <<>>
    /\ tasks = [f \in Files |-> IdleTask]
    /\ collections = <<>>

OrderIdle ==
    /\ inPlugins = <<>>
    /\ inOrder = NoOrder
    /\ orderDone = TRUE
    /\ outOrdered = <<>>
    /\ outWarnings = <<>>
    /\ outCalls = 0

PageIdle ==
    /\ pgItems = <<>>
    /\ pgSize = 1
    /\ pgBaseUrl = <<>>
    /\ pgBasePath = <<>>
    /\ pgPc = "idle"
    /\ pgPages = <<>>
    /\ pgUrls = <<>>

SortIdle ==
    /\ stKeys = <<>>
    /\ stOrder = "desc"
    /\ stDone = TRUE
    /\ stResult = <<>>

TagsIdle ==
    /\ tgCollections = [posts |-> <<>>, pages |-> <<>>]
    /\ tgDone = TRUE
    /\ tgThrew = FALSE
    /\ tgTags = <<>>
    /\ tgPc = "idle"
    /\ tgAllTags = <<>>
    /\ tgPaginatedTags = <<>>

ContentIdle ==
    /\ ctFiles = <<>>
    /\ ctPermalinks = <<>>
    /\ ctBasePath = <<>>
    /\ ctItems = <<>>
    /\ ctPathTemplate = <<>>
    /\ ctWalk = <<>>

PureIdle == PageIdle /\ SortIdle /\ TagsIdle /\ ContentIdle

(***************************************************************************)
(* build() (src/lib/build.js)                                              *)
(***************************************************************************)
Event(ev, name) == [ev |-> ev, name |-> name, plugin |-> "", build |-> buildNo]
HandlerEvent(ev, name, handler) ==
    [ev |-> ev, name |-> name, plugin |-> handler.plugin, build |-> handler.build]

\* (a build that keeps the registry it finds)
BuildKeepRegistry(reg) == reg

\* build: initializeHooks(), called before plugins are loaded and registered
BuildInitRegistry(reg) == InitializeHooks

\* build(options): loadConfig, then initializeHooks
BuildStart ==
    /\ pc \in {"idle", "done", "failed"}
    /\ buildNo < MaxBuilds
    /\ buildNo' = buildNo + 1
    /\ options' \in [devMode : BOOLEAN]
    /\ config' \in [strictMode : BOOLEAN, showDrafts : BOOLEAN, written : {FALSE}]
    /\ hooks' = BuildInitRegistry(hooks)
    /\ pc' = "loadPlugins"
    /\ discovered' = <<>>
    /\ loadedPlugins' = <<>>
    /\ firing' = NoFiring
    /\ log' = <<>>
    /\ tasks' = [f \in Files |-> IdleTask]
    /\ collections' = <<>>
    /\ UNCHANGED <<orderVars, pureVars>>

\* executeHook(h, ...) is called: the firing starts
Fire(h, lg) ==
    /\ pc' = h
    /\ firing' = StartFiring(h)
    /\ log' = Append(lg, [ev |-> "fire", name |-> h, plugin |-> "", build |-> buildNo])

\* loadPlugins: the modules that loaded, in discovery order
Loaded(found) == SelectSeq(found, LAMBDA m : m.valid)
\* (a loadPlugins that never throws)
LoadPluginsNeverThrows(found, strictMode) == FALSE
\* loadPlugins: it throws when a module failed and strictMode is set
LoadPluginsThrows(found, strictMode) == Len(Loaded(found)) < Len(found) /\ strictMode

\* loadPlugins: the loaded plugins in the order orderPlugins gives them
RECURSIVE ByName(_, _, _)
ByName(loaded, names, i) ==
    IF i > Len(names) THEN <<>>
    ELSE <<PluginMapGet(loaded, names[i])>> \o ByName(loaded, names, i + 1)
LoadPluginsResult(found) == ByName(Loaded(found), OrderPlugins(Loaded(found), NoOrder), 1)

\* build: the try block around loadPlugins and registerPluginHooks, and the
\* call of executeHook('afterConfigLoad') that follows it
LoadPlugins ==
    /\ pc = "loadPlugins"
    /\ \E found \in DiscoveredChoices :
        /\ discovered' = found
        /\ IF LoadPluginsThrows(found, config.strictMode)
           THEN /\ pc' = "failed"
                /\ UNCHANGED <<loadedPlugins, hooks, firing, log>>
           ELSE /\ loadedPlugins' = LoadPluginsResult(found)
                /\ hooks' = IF Len(loadedPlugins') > 0
                            THEN RegisterPluginHooks(hooks, loadedPlugins', 1, buildNo)
                            ELSE hooks
                /\ Fire("afterConfigLoad", log)
    /\ UNCHANGED <<buildNo, options, config, tasks, collections>>
    /\ UNCHANGED <<orderVars, pureVars>>

\* executeHook: the try/catch around the call of one handler
SettleOutcome(handler, lg) ==
    IF handler.returns = "throw"
    THEN /\ log' = Append(lg, HandlerEvent("throw", firing.hook, handler))
         /\ IF config.strictMode
            THEN \E atOnce \in BOOLEAN :
                    firing' = [firing EXCEPT !.running = FALSE, !.idx = @ + 1,
                                             !.error = TRUE, !.raised = atOnce]
            ELSE firing' = [firing EXCEPT !.running = FALSE, !.idx = @ + 1]
    ELSE /\ log' = Append(lg, HandlerEvent("return", firing.hook, handler))
         /\ firing' = [firing EXCEPT !.running = FALSE, !.idx = @ + 1]

\* the hooks whose handlers receive config before the collections are loaded
ConfigHooks == {"afterConfigLoad", "beforeBuild"}

\* what a handler of the firing leaves in config: handlers of afterConfigLoad
\* and beforeBuild receive the config object and may set server.showDrafts
\* (written: a handler of this build has done so)
HandlerWrites(cfg) ==
    IF firing.hook \in ConfigHooks
    THEN {cfg, [cfg EXCEPT !.showDrafts = TRUE, !.written = TRUE]}
    ELSE {cfg}

\* executeHook: the handler at firing.idx has settled with its outcome; in
\* strict mode a failure is raised at once or after the remaining handlers
Settle(handler, lg) ==
    /\ config' \in HandlerWrites(config)
    /\ SettleOutcome(handler, lg)

\* executeHook: the next handler of the firing is invoked; it settles at once
\* (a synchronous handler) or stays in progress (an async handler that awaits)
HandlerInvoke ==
    /\ firing.hook # "none"
    /\ ~firing.running
    /\ ~firing.raised
    /\ firing.idx <= Len(hooks[firing.hook])
    /\ LET handler == hooks[firing.hook][firing.idx]
           lg == Append(log, HandlerEvent("invoke", firing.hook, handler))
       IN \/ /\ firing' = [firing EXCEPT !.running = TRUE, !.awaited = TRUE]
             /\ log' = lg
             /\ config' = config
          \/ Settle(handler, lg)
    /\ UNCHANGED <<buildNo, pc, options, hooks, discovered, loadedPlugins, tasks, collections>>
    /\ UNCHANGED <<orderVars, pureVars>>

\* executeHook: the handler in progress resolves or rejects
HandlerSettle ==
    /\ firing.hook # "none"
    /\ firing.running
    /\ Settle(hooks[firing.hook][firing.idx], log)
    /\ UNCHANGED <<buildNo, pc, options, hooks, discovered, loadedPlugins, tasks, collections>>
    /\ UNCHANGED <<orderVars, pureVars>>

\* (a call of executeHook that is not awaited)
NotAwaited(h) == pc = h /\ firing.hook = h

\* build: await executeHook(h, ...) resumes once the firing is complete
Awaited(h) == pc = h /\ firing.hook = h /\ FiringComplete
\* ... normally
Returned(h) == Awaited(h) /\ ~firing.error
\* ... with the error executeHook raised
Raised(h) == Awaited(h) /\ firing.error

\* (a build that catches what a hook firing raises and returns)
HookErrorSwallowed ==
    /\ \E h \in LifecycleHooks : pc = h /\ firing.hook = h /\ FiringComplete /\ firing.error
    /\ pc' = "done"
    /\ UNCHANGED <<buildNo, options, config, hooks, discovered, loadedPlugins, firing, log, tasks, collections>>
    /\ UNCHANGED <<orderVars, pureVars>>

\* build: no try/catch surrounds a hook firing, so what executeHook raises
\* rejects build()
HookErrorRejectsBuild ==
    /\ \E h \in LifecycleHooks : Raised(h)
    /\ pc' = "failed"
    /\ UNCHANGED <<buildNo, options, config, hooks, discovered, loadedPlugins, firing, log, tasks, collections>>
    /\ UNCHANGED <<orderVars, pureVars>>

\* (a build that goes from afterConfigLoad straight to afterContentLoad)
AfterConfigLoadDoneMisfires ==
    /\ pc = "afterConfigLoad" /\ firing.hook = "afterConfigLoad" /\ FiringComplete /\ ~firing.error
    /\ Fire("afterContentLoad", log)
    /\ UNCHANGED <<buildNo, options, config, hooks, discovered, loadedPlugins, tasks, collections>>
    /\ UNCHANGED <<orderVars, pureVars>>

\* build: after afterConfigLoad, fire beforeBuild
AfterConfigLoadDone ==
    /\ Returned("afterConfigLoad")
    /\ Fire("beforeBuild", log)
    /\ UNCHANGED <<buildNo, options, config, hooks, discovered, loadedPlugins, tasks, collections>>
    /\ UNCHANGED <<orderVars, pureVars>>

(***************************************************************************)
(* loadCollection and parseContent (src/lib/content.js)                    *)
(***************************************************************************)
FilesOf(k) == CollectionFiles[CollectionSeq[k]]
\* the collection loadAllCollections is loading
Loading == Len(collections) + 1

\* loadCollection: files.map(async (filePath) => ...): one callback per file,
\* each about to fold the file's text through beforeContentParse
SpawnTasks(k) ==
    [f \in Files |->
        IF f \in Range(FilesOf(k))
        THEN [stage |-> "beforeContentParse", idx |-> 1, running |-> FALSE, started |-> FALSE,
              arg |-> <<f>>, acc |-> <<f>>, draft |-> FALSE, result |-> "pending", builds |-> {},
              rank |-> 0]
        ELSE tasks[f]]

\* files.map starts the callbacks in file order: a callback makes its first
\* step only after the callbacks of the files before it made theirs
StartsInOrder(f) ==
    \A i, j \in 1..Len(FilesOf(Loading)) :
        (FilesOf(Loading)[j] = f /\ i < j) => tasks[FilesOf(Loading)[i]].started

TaskActive(f) ==
    /\ pc = "loadAllCollections"
    /\ Loading <= Len(CollectionSeq)
    /\ f \in Range(FilesOf(Loading))
    /\ tasks[f].stage \in ContentHooks
    /\ StartsInOrder(f)

\* the place of a callback that completes now among the callbacks of the
\* collection, in order of completion
NextRank == Cardinality({g \in Range(FilesOf(Loading)) : tasks[g].stage = "done"}) + 1

\* (a per-file callback without the catch block)
CallbackRethrows == FALSE
\* loadCollection: the catch block of the per-file callback returns null
CallbackCatches == TRUE

\* the per-file callback ends with an exception
TaskFails(f) ==
    IF CallbackCatches
    THEN /\ tasks' = [tasks EXCEPT ![f] = [@ EXCEPT !.stage = "done", !.running = FALSE,
                                                   !.started = TRUE, !.result = "null",
                                                   !.rank = NextRank]]
         /\ pc' = pc
    ELSE /\ tasks' = [tasks EXCEPT ![f] = [@ EXCEPT !.stage = "done", !.running = FALSE,
                                                   !.started = TRUE, !.rank = NextRank]]
         /\ pc' = "failed"

\* executeHookWithResult: the handler at idx has settled with its outcome
TaskSettled(f, handler) ==
    IF handler.returns = "throw" /\ config.strictMode
    THEN TaskFails(f)
    ELSE /\ tasks' = [tasks EXCEPT ![f] = [@ EXCEPT !.running = FALSE, !.started = TRUE,
                                                   !.idx = @ + 1,
                                                   !.acc = FoldStep(@, handler),
                                                   !.builds = @ \cup {handler.build}]]
         /\ pc' = pc

\* executeHookWithResult: the next handler of the fold is invoked
TaskInvoke(f) ==
    /\ TaskActive(f)
    /\ ~tasks[f].running
    /\ tasks[f].idx <= Len(hooks[tasks[f].stage])
    /\ LET handler == hooks[tasks[f].stage][tasks[f].idx] IN
        \/ /\ tasks' = [tasks EXCEPT ![f] = [@ EXCEPT !.running = TRUE, !.started = TRUE,
                                                    !.builds = @ \cup {handler.build}]]
           /\ pc' = pc
        \/ TaskSettled(f, handler)
    /\ UNCHANGED <<buildNo, options, config, hooks, discovered, loadedPlugins, firing, log, collections>>
    /\ UNCHANGED <<orderVars, pureVars>>

\* executeHookWithResult: the handler in progress resolves or rejects
TaskSettle(f) ==
    /\ TaskActive(f)
    /\ tasks[f].running
    /\ TaskSettled(f, hooks[tasks[f].stage][tasks[f].idx])
    /\ UNCHANGED <<buildNo, options, config, hooks, discovered, loadedPlugins, firing, log, collections>>
    /\ UNCHANGED <<orderVars, pureVars>>

\* (a parseContent that drops the result of the afterMarkdown fold)
AfterMarkdownDiscarded(arg, folded) == arg
\* parseContent: html = await executeHookWithResult('afterMarkdown', html, ...)
AfterMarkdownResult(arg, folded) == folded

\* the task folds value through the next content hook
NextFold(task, hook, value) ==
    [task EXCEPT !.stage = hook, !.idx = 1, !.started = TRUE, !.arg = value, !.acc = value]

\* parseContent and the rest of the callback: the code between two folds
TaskAdvance(f) ==
    /\ TaskActive(f)
    /\ ~tasks[f].running
    /\ tasks[f].idx > Len(hooks[tasks[f].stage])
    /\ LET t == tasks[f] IN
        \/ /\ t.stage = "beforeContentParse"
           \* matter(content) throws on a malformed header, or gives the front matter
           /\ \/ TaskFails(f)
              \/ /\ \E d \in BOOLEAN :
                      tasks' = [tasks EXCEPT ![f] =
                                  [NextFold(t, "beforeMarkdown", Append(t.acc, "matter"))
                                      EXCEPT !.draft = d]]
                 /\ pc' = pc
        \/ /\ t.stage = "beforeMarkdown"
           /\ tasks' = [tasks EXCEPT ![f] = NextFold(t, "afterMarkdown", Append(t.acc, "marked"))]
           /\ pc' = pc
        \/ /\ t.stage = "afterMarkdown"
           /\ tasks' = [tasks EXCEPT ![f] =
                          NextFold(t, "afterContentParse",
                                   AfterMarkdownResult(t.arg, t.acc)
                                       \o <<"embedYouTubeVideos", "embedGiphyGifs">>)]
           /\ pc' = pc
        \/ /\ t.stage = "afterContentParse"
           /\ tasks' = [tasks EXCEPT ![f] = [@ EXCEPT !.stage = "done", !.started = TRUE,
                                                       !.acc = Append(@, "fixRelativePaths"),
                                                       !.result = "item",
                                                       !.rank = NextRank]]
           /\ pc' = pc
    /\ UNCHANGED <<buildNo, options, config, hooks, discovered, loadedPlugins, firing, log, collections>>
    /\ UNCHANGED <<orderVars, pureVars>>

\* the value the callback of file f resolved to, as a list: empty for null
ItemOf(k, f) ==
    IF tasks[f].result = "item"
    THEN <<[file |-> f, collection |-> CollectionSeq[k], content |-> tasks[f].acc,
            draft |-> tasks[f].draft, date |-> FileDate[f]]>>
    ELSE <<>>

\* (the results in the order the callbacks completed)
RECURSIVE ItemsAsCompleted(_, _)
ItemsAsCompleted(k, i) ==
    IF i > Len(FilesOf(k)) THEN <<>>
    ELSE ItemOf(k, CHOOSE f \in Range(FilesOf(k)) : tasks[f].rank = i)
             \o ItemsAsCompleted(k, i + 1)

\* loadCollection: await Promise.all(files.map(...)): the values the
\* callbacks resolved to, in file order; null is dropped by the filter
RECURSIVE Items(_, _)
Items(k, i) ==
    IF i > Len(FilesOf(k)) THEN <<>>
    ELSE ItemOf(k, FilesOf(k)[i]) \o Items(k, i + 1)

\* (a filter that keeps every item)
KeepEveryItem(item, showDrafts) == TRUE
\* loadCollection: the draft filter
KeepItem(item, showDrafts) ==
    IF item.draft /\ showDrafts THEN TRUE ELSE ~item.draft

\* loadCollection: what it returns once Promise.all has resolved
LoadCollectionResult(k, showDrafts) ==
    LET kept == SelectSeq(Items(k, 1), LAMBDA item : KeepItem(item, showDrafts))
    \* the default sortBy 'date' and sortOrder 'desc'
    IN SortBy(kept, [i \in 1..Len(kept) |-> DateVal(kept[i].date)], "desc")

(***************************************************************************)
(* build() and buildSiteData(): the code between two awaits                *)
(***************************************************************************)
Steps(names) == [i \in 1..Len(names) |-> Event("step", names[i])]

\* (a build without the override)
ShowDraftsKept(opts, cfg) == cfg
\* build: if (!options.devMode) config.server.showDrafts = false
ShowDraftsOverride(opts, cfg) ==
    IF ~opts.devMode THEN [cfg EXCEPT !.showDrafts = FALSE] ELSE cfg

\* build: after beforeBuild: the showDrafts override, cleanOutput, resolveTheme,
\* then buildSiteData calls loadAllCollections, which loads the first collection
BeforeBuildDone ==
    /\ Returned("beforeBuild")
    /\ config' = ShowDraftsOverride(options, config)
    /\ log' = log \o Steps(<<"cleanOutput", "resolveTheme">>)
    /\ pc' = "loadAllCollections"
    /\ firing' = NoFiring
    /\ tasks' = SpawnTasks(1)
    /\ UNCHANGED <<buildNo, options, hooks, discovered, loadedPlugins, collections>>
    /\ UNCHANGED <<orderVars, pureVars>>

\* loadCollection returns (filter, sort); loadAllCollections goes on to the
\* next collection, or returns to buildSiteData, which builds the tag
\* collections and fires afterTagCollections
LoadCollectionDone ==
    /\ pc = "loadAllCollections"
    /\ Loading <= Len(CollectionSeq)
    /\ \A f \in Range(FilesOf(Loading)) : tasks[f].stage = "done"
    /\ collections' = Append(collections,
                             [name |-> CollectionSeq[Loading],
                              items |-> LoadCollectionResult(Loading, config.showDrafts)])
    /\ IF Loading < Len(CollectionSeq)
       THEN /\ tasks' = SpawnTasks(Loading + 1)
            /\ UNCHANGED <<pc, firing, log>>
       ELSE /\ Fire("afterTagCollections",
                    log \o Steps(<<"loadAllCollections", "buildTagCollections", "getAllTags">>))
            \* the arrays of promises are gone, and with them the order of completion
            /\ tasks' = [f \in Files |-> [tasks[f] EXCEPT !.rank = 0]]
    /\ UNCHANGED <<buildNo, options, config, hooks, discovered, loadedPlugins>>
    /\ UNCHANGED <<orderVars, pureVars>>

\* buildSiteData: after afterTagCollections it paginates and returns the site
\* data; build then fires afterContentLoad
AfterTagCollectionsDone ==
    /\ Returned("afterTagCollections")
    /\ Fire("afterContentLoad", log \o Steps(<<"paginate", "buildSiteData">>))
    /\ UNCHANGED <<buildNo, options, config, hooks, discovered, loadedPlugins, tasks, collections>>
    /\ UNCHANGED <<orderVars, pureVars>>

\* build: after afterContentLoad, fire beforeSiteData
AfterContentLoadDone ==
    /\ Returned("afterContentLoad")
    /\ Fire("beforeSiteData", log)
    /\ UNCHANGED <<buildNo, options, config, hooks, discovered, loadedPlugins, tasks, collections>>
    /\ UNCHANGED <<orderVars, pureVars>>

\* build: after beforeSiteData: copyCustomAssets, createTemplateEngine, then
\* fire beforeRender
BeforeSiteDataDone ==
    /\ Returned("beforeSiteData")
    /\ Fire("beforeRender", log \o Steps(<<"copyCustomAssets", "createTemplateEngine">>))
    /\ UNCHANGED <<buildNo, options, config, hooks, discovered, loadedPlugins, tasks, collections>>
    /\ UNCHANGED <<orderVars, pureVars>>

\* build: after beforeRender: render every content item (renderContentItem
\* also copies the assets of the item's folder), the listings, the tag pages
\* and the feed, then fire afterRender
BeforeRenderDone ==
    /\ Returned("beforeRender")
    /\ Fire("afterRender",
            log \o Steps(<<"renderContentItem", "copyContentAssets", "renderHomepage",
                           "renderBlogListing", "renderNotesListing", "renderTagPages",
                           "renderRSSFeed">>))
    /\ UNCHANGED <<buildNo, options, config, hooks, discovered, loadedPlugins, tasks, collections>>
    /\ UNCHANGED <<orderVars, pureVars>>

\* (a build that fires afterBuild before it copies the assets)
AfterRenderDoneNoCopy ==
    /\ Returned("afterRender")
    /\ Fire("afterBuild", log)
    /\ UNCHANGED <<buildNo, options, config, hooks, discovered, loadedPlugins, tasks, collections>>
    /\ UNCHANGED <<orderVars, pureVars>>

\* build: after afterRender: copy the assets, then fire afterBuild
AfterRenderDone ==
    /\ Returned("afterRender")
    /\ Fire("afterBuild",
            log \o Steps(<<"copyImages", "copyDefaultStyles", "copyStaticAssets">>))
    /\ UNCHANGED <<buildNo, options, config, hooks, discovered, loadedPlugins, tasks, collections>>
    /\ UNCHANGED <<orderVars, pureVars>>

\* build: after afterBuild it returns
AfterBuildDone ==
    /\ Returned("afterBuild")
    /\ pc' = "done"
    /\ UNCHANGED <<buildNo, options, config, hooks, discovered, loadedPlugins, firing, log, tasks, collections>>
    /\ UNCHANGED <<orderVars, pureVars>>

BuildInit == BuildIdle /\ OrderIdle /\ PureIdle

BuildNext ==
    \/ BuildStart
    \/ LoadPlugins
    \/ HandlerInvoke
    \/ HandlerSettle
    \/ HookErrorRejectsBuild
    \/ AfterConfigLoadDone
    \/ BeforeBuildDone
    \/ \E f \in Files : TaskInvoke(f)
    \/ \E f \in Files : TaskSettle(f)
    \/ \E f \in Files : TaskAdvance(f)
    \/ LoadCollectionDone
    \/ AfterTagCollectionsDone
    \/ AfterContentLoadDone
    \/ BeforeSiteDataDone
    \/ BeforeRenderDone
    \/ AfterRenderDone
    \/ AfterBuildDone

SpecBuild == BuildInit /\ [][BuildNext]_vars

(***************************************************************************)
(* Specification of orderPlugins applied to bounded inputs                 *)
(***************************************************************************)
\* the loaded plugins PluginSeq, each with a dependencies array of at most n names of S
PluginsWithDeps(S, n) ==
    {[i \in 1..Len(PluginSeq) |-> [name |-> PluginSeq[i], dependencies |-> d[i]]] :
        d \in [1..Len(PluginSeq) -> SeqsUpTo(S, n)]}

OrderInputs ==
    \/ /\ inOrder = NoOrder
       /\ inPlugins \in PluginsWithDeps(AllNames, MaxDeps)
    \/ /\ inOrder \in {OrderArray(names) : names \in SeqsUpTo(AllNames, MaxOrder)}
       /\ inPlugins \in PluginsWithDeps(PluginNames, MaxOrderDeps)

OrderInit ==
    /\ BuildIdle
    /\ PureIdle
    /\ OrderInputs
    /\ orderDone = FALSE
    /\ outOrdered = <<>>
    /\ outWarnings = <<>>
    /\ outCalls = 0

OrderPluginsCall ==
    /\ ~orderDone
    /\ LET run == OrderPluginsRun(inPlugins, inOrder) IN
        /\ outOrdered' = run.ordered
        /\ outWarnings' = run.warnings
        /\ outCalls' = run.calls
    /\ orderDone' = TRUE
    /\ UNCHANGED <<inPlugins, inOrder>>
    /\ UNCHANGED <<buildVars, pureVars>>

OrderNext == OrderPluginsCall

SpecOrder == OrderInit /\ [][OrderNext]_vars

(***************************************************************************)
(* paginate and getPaginationUrls (src/lib/collections.js)                 *)
(***************************************************************************)
\* a JavaScript value that is null, a number or a string (a string is the
\* sequence of the pieces it is concatenated from)
Null == [isNull |-> TRUE, n |-> 0, s |-> <<>>]
Num(k) == [isNull |-> FALSE, n |-> k, s |-> <<>>]
Str(pieces) == [isNull |-> FALSE, n |-> 1, s |-> pieces]
\* ToBoolean of a null or a number
Truthy(v) == ~v.isNull /\ v.n # 0

Min(a, b) == IF a < b THEN a ELSE b
\* (Math.floor in its place)
Floor(n, d) == n \div d
\* Math.ceil(n / d) for non-negative n and positive d
Ceil(n, d) == (n + d - 1) \div d
\* (a slice that runs to the end of the array)
SliceToEnd(items, start, end) ==
    IF start >= Len(items) THEN <<>> ELSE [k \in 1..(Len(items) - start) |-> items[start + k]]
\* items.slice(start, end), indices counted from 0
Slice(items, start, end) ==
    LET last == Min(end, Len(items))
    IN IF start >= last THEN <<>> ELSE [k \in 1..(last - start) |-> items[start + k]]

\* paginate: the page pushed by iteration i of the loop
Page(items, pageSize, totalPages, i) ==
    LET start == i * pageSize
        end == start + pageSize
    IN [items |-> Slice(items, start, end),
        pageNumber |-> i + 1,
        totalPages |-> totalPages,
        totalItems |-> Len(items),
        isFirst |-> (i = 0),
        isLast |-> (i = totalPages - 1),
        previousPage |-> IF i > 0 THEN Num(i) ELSE Null,
        nextPage |-> IF i < totalPages - 1 THEN Num(i + 2) ELSE Null,
        startIndex |-> start,
        endIndex |-> Min(end, Len(items))]

\* paginate(items, pageSize)
Paginate(items, pageSize) ==
    LET totalPages == Ceil(Len(items), pageSize)
    IN [k \in 1..totalPages |-> Page(items, pageSize, totalPages, k - 1)]

\* (a page URL without the trailing slash)
PageUrlNoSlash(prefixedBaseUrl, n) == prefixedBaseUrl \o <<"page/", n>>
\* `${prefixedBaseUrl}page/${n}/`
PageUrl(prefixedBaseUrl, n) == prefixedBaseUrl \o <<"page/", n, "/">>

\* getPaginationUrls(baseUrl, pagination, basePath): the three fields it adds
GetPaginationUrls(baseUrl, pagination, basePath) ==
    LET prefixedBaseUrl == basePath \o baseUrl
    IN [pageNumber |-> pagination.pageNumber,
        url |-> IF pagination.pageNumber = 1
                THEN Str(prefixedBaseUrl)
                ELSE Str(PageUrl(prefixedBaseUrl, pagination.pageNumber)),
        previousUrl |-> IF Truthy(pagination.previousPage)
                        THEN (IF pagination.previousPage.n = 1
                              THEN Str(prefixedBaseUrl)
                              ELSE Str(PageUrl(prefixedBaseUrl, pagination.previousPage.n)))
                        ELSE Null,
        nextUrl |-> IF Truthy(pagination.nextPage)
                    THEN Str(PageUrl(prefixedBaseUrl, pagination.nextPage.n))
                    ELSE Null]

\* the items of a list, the page sizes, base URLs and base paths tried
PageItemValues == {"a", "b"}
BaseUrls == {<<"/">>, <<"/blog/">>}
BasePaths == {<<>>, <<"/sub">>}

PageInit ==
    /\ BuildIdle
    /\ ContentIdle
    /\ OrderIdle
    /\ SortIdle
    /\ TagsIdle
    /\ pgItems \in SeqsUpTo(PageItemValues, MaxItems)
    /\ pgSize \in 1..MaxPageSize
    /\ pgBaseUrl \in BaseUrls
    /\ pgBasePath \in BasePaths
    /\ pgPc = "start"
    /\ pgPages = <<>>
    /\ pgUrls = <<>>

\* const pages = paginate(items, config.pagination.size)
PaginateCall ==
    /\ pgPc = "start"
    /\ pgPages' = Paginate(pgItems, pgSize)
    /\ pgPc' = "paginated"
    /\ UNCHANGED <<pgItems, pgSize, pgBaseUrl, pgBasePath, pgUrls>>
    /\ UNCHANGED <<orderVars, buildVars, sortVars, tagVars, contentVars>>

\* pages.forEach(page => getPaginationUrls(baseUrl, page, basePath))
GetPaginationUrlsCall ==
    /\ pgPc = "paginated"
    /\ pgUrls' = [k \in 1..Len(pgPages) |-> GetPaginationUrls(pgBaseUrl, pgPages[k], pgBasePath)]
    /\ pgPc' = "urls"
    /\ UNCHANGED <<pgItems, pgSize, pgBaseUrl, pgBasePath, pgPages>>
    /\ UNCHANGED <<orderVars, buildVars, sortVars, tagVars, contentVars>>

PageNext == PaginateCall \/ GetPaginationUrlsCall

SpecPage == PageInit /\ [][PageNext]_vars

(***************************************************************************)
(* Specification of the sort of loadCollection applied to bounded arrays   *)
(***************************************************************************)
\* the values the sortBy field takes in the arrays tried
SortValues == {DateVal(1), DateVal(2), InvalidDate, StringVal(1), StringVal(2), OtherVal}

SortInit ==
    /\ BuildIdle
    /\ ContentIdle
    /\ OrderIdle
    /\ PageIdle
    /\ TagsIdle
    /\ stKeys \in SeqsUpTo(SortValues, MaxSortItems)
    /\ stOrder \in {"desc", "asc"}
    /\ stDone = FALSE
    /\ stResult = <<>>

\* filteredItems.sort(...): the items are numbered 1..n in filter order
SortCall ==
    /\ ~stDone
    /\ stResult' = SortBy([i \in 1..Len(stKeys) |-> i], stKeys, stOrder)
    /\ stDone' = TRUE
    /\ UNCHANGED <<stKeys, stOrder>>
    /\ UNCHANGED <<orderVars, buildVars, pageVars, tagVars, contentVars>>

SortNext == SortCall

SpecSort == SortInit /\ [][SortNext]_vars

(***************************************************************************)
(* buildTagCollections (src/lib/collections.js)                            *)
(*                                                                         *)
(* A tag is a string, written as a sequence of pieces: words in lower or   *)
(* upper case and single spaces.                                           *)
(***************************************************************************)
Space == " "

LowerCaseOf(piece) ==
    IF piece = "CSS" THEN "css" ELSE IF piece = "Post" THEN "post" ELSE piece
\* tag.toLowerCase()
ToLowerCase(tag) == [i \in 1..Len(tag) |-> LowerCaseOf(tag[i])]

RECURSIVE TrimStart(_)
TrimStart(s) == IF s # <<>> /\ Head(s) = Space THEN TrimStart(Tail(s)) ELSE s
RECURSIVE TrimEnd(_)
TrimEnd(s) ==
    IF s # <<>> /\ s[Len(s)] = Space THEN TrimEnd(SubSeq(s, 1, Len(s) - 1)) ELSE s
\* s.trim()
Trim(s) == TrimEnd(TrimStart(s))

\* (a normalisation that leaves the case alone)
NormalizeKeepCase(tag) == Trim(tag)
\* const normalizedTag = tag.toLowerCase().trim()
NormalizeTag(tag) == Trim(ToLowerCase(tag))

\* normalizedTag.replace(/\s+/g, '-')
RECURSIVE SlugOf(_)
SlugOf(s) ==
    IF s = <<>> THEN <<>>
    ELSE IF Head(s) = Space
         THEN <<"-">> \o SlugOf(TrimStart(s))
         ELSE <<Head(s)>> \o SlugOf(Tail(s))

\* the property names every object literal inherits from Object.prototype
ObjectPrototypeNames ==
    {<<"constructor">>, <<"__proto__">>, <<"toString">>, <<"valueOf">>,
     <<"hasOwnProperty">>}

\* tags: the object literal {} with the buckets added so far, as the sequence
\* of its own properties in insertion order
HasOwn(tags, key) == \E i \in 1..Len(tags) : tags[i].key = key
OwnIndex(tags, key) == CHOOSE i \in 1..Len(tags) : tags[i].key = key
\* !tags[normalizedTag] : the property is looked up along the prototype chain
LookupFalsy(tags, key) == ~HasOwn(tags, key) /\ key \notin ObjectPrototypeNames

NewBucket(tag, key) ==
    [key |-> key, name |-> tag, slug |-> SlugOf(key), items |-> <<>>, count |-> 0]

\* the body of the innermost loop for one tag of one item; st.threw: the
\* TypeError of tags[normalizedTag].items.push on an inherited property,
\* which has no items
AddTag(st, item, collectionName, tag) ==
    IF st.threw THEN st
    ELSE LET key == NormalizeTag(tag)
             made == IF LookupFalsy(st.tags, key)
                     THEN Append(st.tags, NewBucket(tag, key))
                     ELSE st.tags
         IN IF ~HasOwn(made, key)
            THEN [st EXCEPT !.threw = TRUE]
            ELSE LET i == OwnIndex(made, key) IN
                 [st EXCEPT !.tags =
                     [made EXCEPT ![i] =
                         [@ EXCEPT !.items = Append(@, [item EXCEPT !.collection = collectionName]),
                                   !.count = @ + 1]]]

RECURSIVE AddTagsOf(_, _, _, _)
AddTagsOf(st, item, collectionName, j) ==
    IF j > Len(item.tags) THEN st
    ELSE AddTagsOf(AddTag(st, item, collectionName, item.tags[j]), item, collectionName, j + 1)

RECURSIVE AddItemsOf(_, _, _, _)
AddItemsOf(st, items, collectionName, i) ==
    IF i > Len(items) THEN st
    ELSE AddItemsOf(AddTagsOf(st, items[i], collectionName, 1), items, collectionName, i + 1)

RECURSIVE AddCollections(_, _, _)
AddCollections(st, colls, c) ==
    IF c > Len(CollectionSeq) THEN st
    ELSE AddCollections(AddItemsOf(st, colls[CollectionSeq[c]], CollectionSeq[c], 1), colls, c + 1)

\* tag.items.sort((a, b) => new Date(b.date) - new Date(a.date))
SortTagItems(bucket) ==
    [bucket EXCEPT !.items =
        SortBy(@, [i \in 1..Len(@) |-> DateVal(@[i].date)], "desc")]

BuildTagCollections(colls) ==
    LET st == AddCollections([tags |-> <<>>, threw |-> FALSE], colls, 1)
    IN IF st.threw THEN st
       ELSE [st EXCEPT !.tags = [i \in 1..Len(st.tags) |-> SortTagItems(st.tags[i])]]

(***************************************************************************)
(* Specification of buildTagCollections applied to bounded collections     *)
(***************************************************************************)
TagValues ==
    {<<"css">>, <<"CSS">>, <<"css", Space>>, <<"web", Space, "dev">>, <<"web", "-", "dev">>,
     <<"constructor">>}

TagItem(id, date, tags) == [id |-> id, date |-> date, tags |-> tags, collection |-> "none"]

TagsInit ==
    /\ BuildIdle
    /\ ContentIdle
    /\ OrderIdle
    /\ PageIdle
    /\ SortIdle
    \* posts is sorted by date, newest first, as loadCollection returns it
    /\ \E t1, t2 \in SeqsUpTo(TagValues, MaxTags), t3 \in SeqsUpTo(TagValues, 1) :
           tgCollections = [posts |-> <<TagItem("i2", 2, t2), TagItem("i1", 1, t1)>>,
                            pages |-> <<TagItem("i3", 3, t3)>>]
    /\ tgDone = FALSE
    /\ tgThrew = FALSE
    /\ tgTags = <<>>
    /\ tgPc = "start"
    /\ tgAllTags = <<>>
    /\ tgPaginatedTags = <<>>

\* getAllTags: Object.values(tagCollections).sort((a, b) => b.count - a.count);
\* the array holds the bucket objects themselves, written here by their key
GetAllTags(tags) ==
    SortBy([i \in 1..Len(tags) |-> tags[i].key],
           [i \in 1..Len(tags) |-> DateVal(tags[i].count)], "desc")

\* buildSiteData: buildTagCollections(collections) and getAllTags, up to the
\* firing of afterTagCollections
BuildTagCollectionsCall ==
    /\ tgPc = "start"
    /\ LET r == BuildTagCollections(tgCollections) IN
           /\ tgThrew' = r.threw
           /\ tgTags' = r.tags
           /\ tgAllTags' = IF r.threw THEN <<>> ELSE GetAllTags(r.tags)
           /\ tgPc' = IF r.threw THEN "failed" ELSE "afterTagCollections"
    /\ tgDone' = TRUE
    /\ UNCHANGED <<tgCollections, tgPaginatedTags>>
    /\ UNCHANGED <<orderVars, buildVars, pageVars, sortVars, contentVars>>

\* a handler of afterTagCollections changes the tag map it receives in place:
\* it adds a bucket of its own or deletes one
AfterTagCollectionsHandler ==
    /\ tgPc = "afterTagCollections"
    /\ \/ /\ ~HasOwn(tgTags, <<"extra">>)
          /\ tgTags' = Append(tgTags, NewBucket(<<"extra">>, <<"extra">>))
       \/ \E i \in 1..Len(tgTags) :
             tgTags' = [j \in 1..(Len(tgTags) - 1) |-> IF j < i THEN tgTags[j] ELSE tgTags[j + 1]]
    /\ tgPc' = "handled"
    /\ UNCHANGED <<tgCollections, tgDone, tgThrew, tgAllTags, tgPaginatedTags>>
    /\ UNCHANGED <<orderVars, buildVars, pageVars, sortVars, contentVars>>

\* buildSiteData: after the firing, paginatedTags is built from the tag map
\* and the site data is returned
BuildSiteDataReturn ==
    /\ tgPc \in {"afterTagCollections", "handled"}
    /\ tgPaginatedTags' = [i \in 1..Len(tgTags) |->
                              [key |-> tgTags[i].key,
                               pages |-> Paginate(tgTags[i].items, TagPageSize)]]
    /\ tgPc' = "returned"
    /\ UNCHANGED <<tgCollections, tgDone, tgThrew, tgTags, tgAllTags>>
    /\ UNCHANGED <<orderVars, buildVars, pageVars, sortVars, contentVars>>

TagsNext ==
    \/ BuildTagCollectionsCall
    \/ AfterTagCollectionsHandler
    \/ BuildSiteDataReturn

SpecTags == TagsInit /\ [][TagsNext]_vars

(***************************************************************************)
(* Slug, date, permalink and output path of an item, and the collection    *)
(* path (src/lib/content.js)                                               *)
(*                                                                         *)
(* A string is a sequence of pieces: words, separators, punctuation, a     *)
(* YYYY-MM-DD date, a token of a template. A front-matter field is Null    *)
(* when unset, Str(pieces) when set; a date is a record of year, month     *)
(* and day.                                                                *)
(***************************************************************************)
\* ToBoolean of a string or null: frontMatter.slug || ..., !pathTemplate
TruthyString(v) == ~v.isNull /\ v.s # <<>>

\* the pieces that match \d{4}-\d{2}-\d{2}, with the date that
\* split('-').map(Number) and new Date(year, month - 1, day) make of them
DatePrefixes ==
    {[text |-> "2024-05-06", date |-> [y |-> 2024, m |-> 5, d |-> 6]],
     [text |-> "2025-12-17", date |-> [y |-> 2025, m |-> 12, d |-> 17]]}

\* slugify: lower case, drop what is neither word character, whitespace nor
\* hyphen, turn runs of whitespace, underscore and hyphen into one hyphen,
\* strip the hyphens at both ends
Slugify(str) ==
    LET separators == {"-", "_", Space}
        kept == SelectSeq(ToLowerCase(str), LAMBDA p : p # "!")
        RECURSIVE SkipRun(_)
        SkipRun(s) == IF s # <<>> /\ Head(s) \in separators THEN SkipRun(Tail(s)) ELSE s
        RECURSIVE Collapse(_)
        Collapse(s) ==
            IF s = <<>> THEN <<>>
            ELSE IF Head(s) \in separators THEN <<"-">> \o Collapse(SkipRun(s))
            ELSE <<Head(s)>> \o Collapse(Tail(s))
        c == Collapse(kept)
        noLead == IF c # <<>> /\ Head(c) = "-" THEN Tail(c) ELSE c
    IN IF noLead # <<>> /\ noLead[Len(noLead)] = "-"
       THEN SubSeq(noLead, 1, Len(noLead) - 1)
       ELSE noLead

\* no date: frontMatter.date unset, getDateFromFilename returning null
NoDate == [y |-> 0, m |-> 0, d |-> 0]

\* (a getSlugFromFilename that never looks at the parent folder)
GetSlugFromOwnName(file) ==
    IF Len(file.name) >= 3 /\ file.name[2] = "-"
          /\ \E p \in DatePrefixes : p.text = file.name[1]
    THEN SubSeq(file.name, 3, Len(file.name))
    ELSE Slugify(file.name)
\* getSlugFromFilename: file.name is the base name without its extension,
\* file.parent the name of the folder the file is in
GetSlugFromFilename(file) ==
    LET name == IF file.name = <<"index">> THEN file.parent ELSE file.name
        \* /^\d{4}-\d{2}-\d{2}-(.+)$/
        match == /\ Len(name) >= 3
                 /\ \E p \in DatePrefixes : p.text = name[1]
                 /\ name[2] = "-"
    IN IF match THEN SubSeq(name, 3, Len(name)) ELSE Slugify(name)

\* getDateFromFilename: the date of the prefix /^(\d{4}-\d{2}-\d{2})/, or null
GetDateFromFilename(file) ==
    LET name == IF file.name = <<"index">> THEN file.parent ELSE file.name
    IN IF name # <<>> /\ \E p \in DatePrefixes : p.text = name[1]
       THEN (CHOOSE p \in DatePrefixes : p.text = name[1]).date
       ELSE NoDate

\* new Date(): the day of the build
Today == [y |-> 2026, m |-> 11, d |-> 4]

\* parseContent: slug and date of the item; the other front-matter fields
\* are copied
ParseContent(file) ==
    LET fromName == GetDateFromFilename(file) IN
    [file |-> <<file.parent, file.name>>,
     slug |-> IF TruthyString(file.slug) THEN file.slug.s ELSE GetSlugFromFilename(file),
     date |-> IF file.date # NoDate THEN file.date
              ELSE IF fromName # NoDate THEN fromName ELSE Today,
     permalink |-> file.permalink]

\* String(n).padStart(2, '0')
PadStart2(n) == IF n < 10 THEN <<"0", ToString(n)>> ELSE <<ToString(n)>>

\* s.replace(/token/g, by): every occurrence
RECURSIVE ReplaceEvery(_, _, _)
ReplaceEvery(s, token, by) ==
    IF s = <<>> THEN <<>>
    ELSE (IF Head(s) = token THEN by ELSE <<Head(s)>>) \o ReplaceEvery(Tail(s), token, by)
\* s.replace(token, by) with a string pattern: the first occurrence only
RECURSIVE ReplaceFirst(_, _, _)
ReplaceFirst(s, token, by) ==
    IF s = <<>> THEN <<>>
    ELSE IF Head(s) = token THEN by \o Tail(s)
    ELSE <<Head(s)>> \o ReplaceFirst(Tail(s), token, by)

\* path.join: the segments between the slashes, empty ones dropped
RECURSIVE Segments(_)
Segments(path) ==
    IF path = <<>> THEN <<>>
    ELSE IF Head(path) = "/" THEN Segments(Tail(path))
    ELSE LET RECURSIVE First(_)
             First(s) == IF s = <<>> \/ Head(s) = "/" THEN <<>>
                         ELSE <<Head(s)>> \o First(Tail(s))
             seg == First(path)
         IN <<seg>> \o Segments(SubSeq(path, Len(seg) + 1, Len(path)))

\* loadCollection: the per-file callback after parseContent: permalink, url
\* and outputPath
LoadedItem(item, collectionPermalink, basePath) ==
    LET template == IF TruthyString(item.permalink) THEN item.permalink.s
                    ELSE IF TruthyString(collectionPermalink) THEN collectionPermalink.s
                    ELSE <<"/", ":slug", "/">>
        permalink ==
            ReplaceFirst(
                ReplaceFirst(
                    ReplaceFirst(
                        ReplaceFirst(template, ":slug", item.slug),
                        ":year", <<ToString(item.date.y)>>),
                    ":month", PadStart2(item.date.m)),
                ":day", PadStart2(item.date.d))
    IN [file |-> item.file, slug |-> item.slug, date |-> item.date,
        permalink |-> permalink,
        url |-> basePath \o permalink,
        \* join(config.outputDir, permalink, 'index.html')
        outputPath |-> <<<<"dist">>>> \o Segments(permalink) \o <<<<"index.html">>>>]

\* expandDatePath
ExpandDatePath(pathTemplate, date) ==
    IF ~TruthyString(pathTemplate) THEN pathTemplate
    ELSE Str(ReplaceEvery(
                 ReplaceEvery(
                     ReplaceEvery(pathTemplate.s, ":year", <<ToString(date.y)>>),
                     ":month", PadStart2(date.m)),
                 ":day", PadStart2(date.d)))

\* getBasePath: what stands before the first match of /:(\w+)/
GetBasePath(pathTemplate) ==
    IF ~TruthyString(pathTemplate) THEN pathTemplate
    ELSE LET s == pathTemplate.s
             isVariable(p) == p \in {":year", ":month", ":day", ":slug"}
         IN IF \E i \in 1..Len(s) : isVariable(s[i])
            THEN Str(SubSeq(s, 1, (CHOOSE i \in 1..Len(s) :
                                      /\ isVariable(s[i])
                                      /\ \A j \in 1..(i - 1) : ~isVariable(s[j])) - 1))
            ELSE pathTemplate

\* getMarkdownFiles(join(inputDir, basePath)) when the only markdown file is
\* stored in the folder storedIn of inputDir: the walk finds it when the
\* directory it starts from exists, that is, is that folder or one above it
GetMarkdownFiles(basePath, storedIn) ==
    LET dir == Segments(basePath)
        folder == Segments(storedIn)
    IN Len(dir) <= Len(folder) /\ \A i \in 1..Len(dir) : dir[i] = folder[i]

(***************************************************************************)
(* Specification of the item fields and of the collection walk, applied to *)
(* bounded file names, front matter and templates                          *)
(***************************************************************************)
ContentInit ==
    /\ BuildIdle
    /\ OrderIdle
    /\ PageIdle
    /\ SortIdle
    /\ TagsIdle
    /\ LET names == SeqsUpTo({"2024-05-06", "my", "Post", "-", "_", Space, "!", "index"},
                             MaxNameLen) \ {<<>>}
           File(parent, name, collection, slug, date, permalink) ==
               [parent |-> parent, name |-> name, collection |-> collection,
                slug |-> slug, date |-> date, permalink |-> permalink]
           dated == File(<<"posts">>, <<"2024-05-06", "-", "my", "-", "post">>, "posts",
                         Null, NoDate, Null)
           blog == Str(<<"/", "blog", "/", ":slug", "/">>)
           permalinks ==
               {Str(t) : t \in SeqsUpTo({"/", ":slug", ":year", ":month", ":day"},
                                        MaxTemplateLen)}
                   \cup {Null, Str(<<"/", ":year", "/", ":month", "/", ":day", "/", ":slug", "/">>)}
       IN \* one file, named freely, with or without slug and date in the front matter
          \/ /\ \E name \in names, slug \in {Null, Str(<<>>), Str(<<"custom">>)},
                   date \in {NoDate, [y |-> 2023, m |-> 1, d |-> 2]} :
                    \E parent \in IF name = <<"index">> THEN names ELSE {<<"posts">>} :
                        ctFiles = <<File(parent, name, "posts", slug, date, Null)>>
             /\ ctPermalinks = [posts |-> blog, pages |-> Null]
             /\ ctBasePath = <<>>
             /\ ctPathTemplate = Str(<<"posts">>)
          \* one file, with a permalink of its own or that of its collection
          \/ /\ \E own \in permalinks, ofCollection \in permalinks :
                    /\ own = Null \/ ofCollection \in {Null, blog}
                    /\ ctFiles = <<[dated EXCEPT !.permalink = own]>>
                    /\ ctPermalinks = [posts |-> ofCollection, pages |-> Null]
             /\ ctBasePath \in BasePaths
             /\ ctPathTemplate = Str(<<"posts">>)
          \* two files in subfolders, of one collection or of two
          \/ /\ \E p1, p2 \in {<<"2024">>, <<"2025">>}, n1, n2 \in {<<"hello">>, <<"about">>},
                   c1, c2 \in {"posts", "pages"} :
                    /\ <<c1, p1, n1>> # <<c2, p2, n2>>
                    /\ ctFiles = <<File(p1, n1, c1, Null, NoDate, Null),
                                   File(p2, n2, c2, Null, NoDate, Null)>>
             /\ ctPermalinks = [posts |-> blog, pages |-> Null]
             /\ ctBasePath = <<>>
             /\ ctPathTemplate = Str(<<"posts">>)
          \* one file, in a collection with a path template
          \/ /\ ctFiles = <<dated>>
             /\ ctPermalinks = [posts |-> blog, pages |-> Null]
             /\ ctBasePath = <<>>
             /\ \E segment \in {<<"posts">>, <<"posts", "/">>, <<"posts", "-">>, <<>>},
                   rest \in SeqsUpTo({"/", ":year", ":month", ":day"}, MaxTemplateLen) :
                     ctPathTemplate = Str(segment \o rest)
    /\ ctItems = <<>>
    /\ ctWalk = [pc |-> "start", basePath |-> Null, storedIn |-> Null, found |-> FALSE]

\* loadCollection: every file is parsed and given its permalink, url and
\* output path
LoadItemsCall ==
    /\ ctItems = <<>>
    /\ ctItems' = [i \in 1..Len(ctFiles) |->
                      LoadedItem(ParseContent(ctFiles[i]),
                                 ctPermalinks[ctFiles[i].collection], ctBasePath)]
    /\ UNCHANGED <<ctFiles, ctPermalinks, ctBasePath, ctPathTemplate, ctWalk>>
    /\ UNCHANGED <<orderVars, buildVars, pageVars, sortVars, tagVars>>

\* loadCollection: getBasePath and getMarkdownFiles, with one markdown file
\* stored in the folder the template expands to for some date
WalkCall ==
    /\ ctWalk.pc = "start"
    /\ \E date \in {d.date : d \in DatePrefixes} :
          LET storedIn == ExpandDatePath(ctPathTemplate, date)
              basePath == GetBasePath(ctPathTemplate)
          IN ctWalk' = [pc |-> "done", basePath |-> basePath, storedIn |-> storedIn,
                        found |-> GetMarkdownFiles(basePath.s, storedIn.s)]
    /\ UNCHANGED <<ctFiles, ctPermalinks, ctBasePath, ctPathTemplate, ctItems>>
    /\ UNCHANGED <<orderVars, buildVars, pageVars, sortVars, tagVars>>

ContentNext == LoadItemsCall \/ WalkCall

SpecContent == ContentInit /\ [][ContentNext]_vars

(***************************************************************************)
(* Properties of orderPlugins                                              *)
(***************************************************************************)
Names(plugins) == {plugins[i].name : i \in 1..Len(plugins)}
\* the dependency edges inside the set: <<p, d>> when plugin p lists d and d is loaded
DepEdges(plugins) ==
    UNION {{<<plugins[i].name, d>> : d \in Range(plugins[i].dependencies) \cap Names(plugins)} :
            i \in 1..Len(plugins)}
\* the paths of at most n + 1 edges
RECURSIVE Paths(_, _)
Paths(E, n) ==
    IF n = 0 THEN E
    ELSE LET P == Paths(E, n - 1) IN
         P \cup {<<q[1][1], q[2][2]>> : q \in {r \in P \X E : r[1][2] = r[2][1]}}
Cyclic(plugins) == \E n \in Names(plugins) : <<n, n>> \in Paths(DepEdges(plugins), Len(plugins))

\* every occurrence of a plugin in the returned list comes after an occurrence
\* of each of its dependencies that are in the set
DepsRespected(plugins, ordered) ==
    \A e \in DepEdges(plugins) :
        \A i \in 1..Len(ordered) :
            ordered[i] = e[1] => \E j \in 1..(i - 1) : ordered[j] = e[2]

\* the returned list holds every plugin of the set exactly once
ExactlyOnce(plugins, ordered) ==
    /\ Len(ordered) = Len(plugins)
    /\ \A n \in Names(plugins) : Cardinality({i \in 1..Len(ordered) : ordered[i] = n}) = 1

RECURSIVE SumDeps(_, _)
SumDeps(plugins, i) ==
    IF i > Len(plugins) THEN 0 ELSE Len(plugins[i].dependencies) + SumDeps(plugins, i + 1)

C2_CycleBroken ==
    (orderDone /\ ~inOrder.isArray /\ Cyclic(inPlugins))
        => /\ ExactlyOnce(inPlugins, outOrdered)
           /\ \E k \in 1..Len(outWarnings) : outWarnings[k].kind = "circular"
           /\ outCalls <= Len(inPlugins) + SumDeps(inPlugins, 1)

\* a cycle through all three plugins, none listing itself, has been ordered
C2_Witness ==
    /\ orderDone /\ ~inOrder.isArray
    /\ inPlugins[1].dependencies = <<"p2">>
    /\ inPlugins[2].dependencies = <<"p3">>
    /\ inPlugins[3].dependencies = <<"p1">>
    /\ outOrdered = <<"p3", "p2", "p1">>
    /\ Len(outWarnings) = 1

\* the names of the order list that match a loaded plugin, in list order
NamedLoaded(plugins, names) == SelectSeq(names, LAMBDA n : n \in Names(plugins))
\* the loaded plugins the order list does not name, in discovery order
NotNamed(plugins, names) ==
    SelectSeq([i \in 1..Len(plugins) |-> plugins[i].name], LAMBDA n : n \notin Range(names))

C13_AsStated ==
    (orderDone /\ inOrder.isArray /\ ~Cyclic(inPlugins)) =>
        \A i \in 1..Len(inPlugins) :
            \A d \in Range(inPlugins[i].dependencies) \cap Names(inPlugins) :
                (inPlugins[i].name \notin Range(inOrder.names) /\ d \notin Range(inOrder.names)) =>
                    \A k \in 1..Len(outOrdered) :
                        outOrdered[k] = inPlugins[i].name =>
                            \E j \in 1..(k - 1) : outOrdered[j] = d

\* C27 (as stated): when config.plugins.order is configured, every loaded
\* plugin appears exactly once in what orderPlugins returns, also when the
\* list names a plugin more than once or names plugins that are not loaded.
C27_AsStated ==
    (orderDone /\ inOrder.isArray) => ExactlyOnce(inPlugins, outOrdered)

(***************************************************************************)
(* Properties of build(): the lifecycle hooks                              *)
(***************************************************************************)
IsPrefix(s, t) == Len(s) <= Len(t) /\ \A i \in 1..Len(s) : s[i] = t[i]
\* the hooks fired so far in this build, in firing order
Fired ==
    LET fires == SelectSeq(log, LAMBDA e : e.ev = "fire")
    IN [i \in 1..Len(fires) |-> fires[i].name]
\* an event of this kind and name is logged before position i
HasBefore(ev, name, i) == \E j \in 1..(i - 1) : log[j].ev = ev /\ log[j].name = name
IsFire(i, h) == log[i].ev = "fire" /\ log[i].name = h
\* the plugins whose handlers are registered for hook h, in registration order
Registered(h) == [k \in 1..Len(hooks[h]) |-> hooks[h][k].plugin]
\* the plugins whose handlers of hook h have been invoked / have settled
InvokedOf(h) ==
    LET evs == SelectSeq(log, LAMBDA e : e.ev = "invoke" /\ e.name = h)
    IN [k \in 1..Len(evs) |-> evs[k].plugin]
SettledOf(h) ==
    LET evs == SelectSeq(log, LAMBDA e : e.ev \in {"return", "throw"} /\ e.name = h)
    IN [k \in 1..Len(evs) |-> evs[k].plugin]
\* the step that follows the firing logged at position i has started
NextStepStarted(i) ==
    \/ \E j \in (i + 1)..Len(log) : log[j].ev \in {"fire", "step"}
    \/ log[i].name = "afterBuild" /\ pc = "done"

FiringOrder ==
    <<"afterConfigLoad", "beforeBuild", "afterTagCollections", "afterContentLoad",
      "beforeSiteData", "beforeRender", "afterRender", "afterBuild">>
ClaimedFiringOrder ==
    <<"afterConfigLoad", "beforeBuild", "afterContentLoad", "afterTagCollections",
      "beforeSiteData", "beforeRender", "afterRender", "afterBuild">>

\* C3 (amended): build() fires each of the eight lifecycle hooks exactly once
\* per successful build, in the order afterConfigLoad, beforeBuild,
\* afterTagCollections, afterContentLoad, beforeSiteData, beforeRender,
\* afterRender, afterBuild: afterTagCollections is fired inside buildSiteData
\* after all collections are loaded and the tag index is built, and
\* afterContentLoad is fired after buildSiteData has returned.
C3_HookOrder ==
    /\ IsPrefix(Fired, FiringOrder)
    /\ pc = "done" => Fired = FiringOrder
    /\ \A i \in 1..Len(log) :
        /\ IsFire(i, "afterTagCollections") =>
            /\ Len(collections) = Len(CollectionSeq)
            /\ \E j \in 1..(i - 1) :
                /\ log[j].ev = "step" /\ log[j].name = "buildTagCollections"
                /\ HasBefore("step", "loadAllCollections", j)
        /\ IsFire(i, "afterContentLoad") =>
            /\ HasBefore("fire", "afterTagCollections", i)
            /\ HasBefore("step", "buildSiteData", i)

\* C3 (as stated): the hooks are fired in the order afterConfigLoad,
\* beforeBuild, afterContentLoad, afterTagCollections, beforeSiteData,
\* beforeRender, afterRender, afterBuild, afterContentLoad before the tag index
\* is built and afterTagCollections is fired.
C3_AsStated ==
    /\ IsPrefix(Fired, ClaimedFiringOrder)
    /\ pc = "done" => Fired = ClaimedFiringOrder
    /\ \A i \in 1..Len(log) :
        (log[i].ev = "step" /\ log[i].name = "buildTagCollections") =>
            HasBefore("fire", "afterContentLoad", i)

\* C3 (witness): a build with handlers registered for the lifecycle hooks has
\* returned, having fired all eight hooks.
C3_Witness ==
    /\ pc = "done"
    /\ Fired = FiringOrder
    /\ Len(hooks["afterContentLoad"]) > 0
    /\ Len(hooks["afterTagCollections"]) > 0

\* the handler invocations in progress: the async handlers that are awaiting
InProgress ==
    {<<f, tasks[f].stage>> : f \in {g \in Files : tasks[g].running}}
        \cup (IF firing.running THEN {<<"build", firing.hook>>} ELSE {})

\* C4 (as stated): at no point in a build are two hook handler invocations in
\* progress at the same time, the content hooks fired while loadCollection
\* parses the files of one collection included.
C4_AsStated == Cardinality(InProgress) <= 1

\* C5: for every lifecycle hook firing, the step that follows it (content
\* loading, rendering, asset copying, the next firing, or the return of build)
\* has not started until every handler registered for the hook, async handlers
\* included, has been invoked and has settled; while a handler is in progress
\* nothing has happened since its invocation.
C5_Barrier ==
    /\ \A i \in 1..Len(log) :
        (log[i].ev = "fire" /\ NextStepStarted(i)) =>
            SettledOf(log[i].name) = Registered(log[i].name)
    /\ firing.running =>
        /\ pc = firing.hook
        /\ log[Len(log)].ev = "invoke" /\ log[Len(log)].name = firing.hook
    /\ (\E f \in Files : tasks[f].stage # "idle") =>
        SettledOf("beforeBuild") = Registered("beforeBuild")

\* C5 (witness): build has returned after the firing of afterBuild, for which
\* two handlers are registered and in which a handler was awaited.
C5_Witness ==
    /\ pc = "done"
    /\ firing.hook = "afterBuild" /\ firing.awaited
    /\ Len(hooks["afterBuild"]) = 2
    /\ SettledOf("afterBuild") = Registered("afterBuild")

(***************************************************************************)
(* Properties of the content hooks and of loadCollection                   *)
(***************************************************************************)
\* the handlers of hook h that return a value, by plugin, in registration order
Applied(h) ==
    LET vs == SelectSeq(hooks[h], LAMBDA x : x.returns = "value")
    IN [k \in 1..Len(vs) |-> vs[k].plugin]
\* the text marked() renders for file f, and the HTML parseContent goes on with
MarkedOf(f) ==
    <<f>> \o Applied("beforeContentParse") \o <<"matter">>
          \o Applied("beforeMarkdown") \o <<"marked">>
HtmlOf(f) == MarkedOf(f) \o Applied("afterMarkdown")
\* parseContent is past the afterMarkdown fold of file f
PastAfterMarkdown(f) == tasks[f].stage = "afterContentParse" \/ tasks[f].result = "item"

\* C6: a fold-style hook composes its handlers left to right in registration
\* order: with h1 then h2 registered for afterMarkdown the item's HTML is
\* h2(h1(html)); a handler that returns nothing (or, outside strict mode,
\* throws) leaves the value as it is for the next handler; with no handler
\* registered the HTML is the input value.
C6_FoldLeftToRight ==
    \A f \in Files : PastAfterMarkdown(f) =>
        LET am == hooks["afterMarkdown"]
            html == HtmlOf(f) \o <<"embedYouTubeVideos", "embedGiphyGifs">>
        IN /\ IsPrefix(html, tasks[f].acc)
           /\ HtmlOf(f) = ComposeLeftToRight(am, 1, MarkedOf(f))
           /\ Len(am) = 0 => HtmlOf(f) = MarkedOf(f)
           /\ (Len(am) = 2 /\ am[1].returns = "value" /\ am[2].returns = "value") =>
                HtmlOf(f) = MarkedOf(f) \o <<am[1].plugin, am[2].plugin>>
           /\ (Len(am) = 2 /\ am[1].returns # "value" /\ am[2].returns = "value") =>
                HtmlOf(f) = MarkedOf(f) \o <<am[2].plugin>>
           /\ (Len(am) = 2 /\ am[1].returns = "value" /\ am[2].returns # "value") =>
                HtmlOf(f) = MarkedOf(f) \o <<am[1].plugin>>

\* C6 (witness): an item was parsed with two afterMarkdown handlers that both
\* return a value, registered in dependency order (p2 before p1).
C6_Witness ==
    /\ Registered("afterMarkdown") = <<"p2", "p1">>
    /\ Applied("afterMarkdown") = <<"p2", "p1">>
    /\ tasks["f1"].result = "item"
    /\ Len(collections) > 0 /\ Len(collections[1].items) > 0

C8_OwnHandlersOnly ==
    /\ \A h \in HookNames : \A k \in 1..Len(hooks[h]) : hooks[h][k].build = buildNo
    /\ \A i \in 1..Len(log) : log[i].ev = "invoke" => log[i].build = buildNo
    /\ \A f \in Files : tasks[f].builds \subseteq {buildNo}
    /\ (pc \notin {"idle", "loadPlugins"} /\ Loaded(discovered) = <<>>) =>
        /\ \A h \in HookNames : hooks[h] = <<>>
        /\ \A i \in 1..Len(log) : log[i].ev # "invoke"
    /\ (pc = "failed" /\ log = <<>>) => \A h \in HookNames : hooks[h] = <<>>

\* C8 (witness): a second build has returned, and handlers were invoked in it,
\* by a lifecycle hook and by a content hook.
C8_Witness ==
    /\ buildNo = 2
    /\ pc = "done"
    /\ \E i \in 1..Len(log) : log[i].ev = "invoke"
    /\ tasks["f1"].builds = {2}

Invalid(found) == \E i \in 1..Len(found) : ~found[i].valid
PluginNamesOf(ps) == [i \in 1..Len(ps) |-> ps[i].name]

\* C9: when plugins.strictMode is true and a discovered plugin fails to load
\* or validate, build() aborts before any lifecycle hook is fired; when
\* strictMode is false the failing plugin is left out, all other discovered
\* plugins are loaded, ordered and registered, and the build goes on.
C9_StrictLoad ==
    pc \notin {"idle", "loadPlugins"} =>
        /\ (config.strictMode /\ Invalid(discovered)) =>
            /\ pc = "failed"
            /\ log = <<>>
            /\ loadedPlugins = <<>>
        /\ ~(config.strictMode /\ Invalid(discovered)) =>
            /\ ExactlyOnce(Loaded(discovered), PluginNamesOf(loadedPlugins))
            /\ \A i \in 1..Len(loadedPlugins) : loadedPlugins[i].valid
            /\ DepsRespected(Loaded(discovered), PluginNamesOf(loadedPlugins))
            /\ hooks = IF Len(loadedPlugins) > 0
                       THEN RegisterPluginHooks(InitializeHooks, loadedPlugins, 1, buildNo)
                       ELSE InitializeHooks
            /\ Len(log) > 0 /\ IsFire(1, "afterConfigLoad")
        /\ ~config.strictMode => pc # "failed"

\* C9 (witness): outside strict mode p1 failed to load, p2 was loaded and its
\* handlers were registered and invoked, and the build returned.
C9_Witness ==
    /\ ~config.strictMode
    /\ Len(discovered) = 2 /\ ~discovered[1].valid /\ discovered[2].valid
    /\ PluginNamesOf(loadedPlugins) = <<"p2">>
    /\ InvokedOf("afterConfigLoad") = <<"p2">>
    /\ pc = "done"

\* the files of the items loadCollection returned for collection k
ReturnedFiles(k) == {collections[k].items[i].file : i \in 1..Len(collections[k].items)}
FailedFiles(k) == {f \in Range(FilesOf(k)) : tasks[f].result = "null"}
ParsedFiles(k) == {f \in Range(FilesOf(k)) : tasks[f].result = "item"}
\* build() was rejected by what a lifecycle hook firing raised, or by loadPlugins
RejectedByHookOrLoad ==
    \/ log = <<>>
    \/ \E i \in 1..Len(log) : log[i].ev = "throw" /\ log[i].name \in LifecycleHooks

RenderStepNames ==
    {"renderContentItem", "renderHomepage", "renderBlogListing", "renderNotesListing",
     "renderTagPages", "renderRSSFeed"}
LateCopyStepNames == {"copyImages", "copyDefaultStyles", "copyStaticAssets"}
EarlyCopyStepNames == {"copyCustomAssets", "copyContentAssets"}

HandlerInvoked == firing.hook # "none" /\ (firing.running \/ firing.idx > 1)

\* C24 (as stated): every handler invocation of every hook receives the
\* plugin API object: as the last argument for each lifecycle hook,
\* afterTagCollections included, and as the api field of the context object
\* for each content-transformation hook.
C24_AsStated ==
    /\ HandlerInvoked => firing.args[Len(firing.args)] = "pluginAPI"
    /\ \A f \in Files :
           (tasks[f].stage \in ContentHooks /\ (tasks[f].running \/ tasks[f].idx > 1)) =>
               "api" \in ContextFields(tasks[f].stage)

\* the same, for every hook but afterTagCollections
C24_OtherHooks ==
    /\ (HandlerInvoked /\ firing.hook # "afterTagCollections") =>
           firing.args[Len(firing.args)] = "pluginAPI"
    /\ \A f \in Files :
           (tasks[f].stage \in ContentHooks /\ (tasks[f].running \/ tasks[f].idx > 1)) =>
               "api" \in ContextFields(tasks[f].stage)

(***************************************************************************)
(* Properties of the draft filter                                          *)
(***************************************************************************)
\* the files whose callback returned an item with the given draft flag
ParsedWithDraft(k, d) ==
    {f \in Range(FilesOf(k)) : tasks[f].result = "item" /\ tasks[f].draft = d}
\* the files of the items with the given draft flag in the loaded collection k
InCollection(k, d) ==
    {collections[k].items[i].file : i \in {j \in 1..Len(collections[k].items) :
                                              collections[k].items[j].draft = d}}

\* C14: a loaded collection holds a draft only if showDrafts is set at load
\* time, and every item parsed without the draft flag is in it, whatever
\* showDrafts is
C14_DraftFilter ==
    \A k \in 1..Len(collections) :
        /\ InCollection(k, TRUE) # {} => config.showDrafts
        /\ InCollection(k, FALSE) = ParsedWithDraft(k, FALSE)

\* C14 witness: with showDrafts set, posts was loaded from a draft and a
\* file that is not a draft, and holds both
C14_Witness ==
    /\ Len(collections) >= 1
    /\ config.showDrafts
    /\ ParsedWithDraft(1, TRUE) = {"f1"}
    /\ ParsedWithDraft(1, FALSE) = {"f2"}
    /\ InCollection(1, TRUE) = {"f1"}
    /\ InCollection(1, FALSE) = {"f2"}

(***************************************************************************)
(* Properties of the merge of the per-file results                         *)
(***************************************************************************)
FileIndex(k, f) == CHOOSE i \in 1..Len(FilesOf(k)) : FilesOf(k)[i] = f
\* the per-file callbacks of the collection being loaded or last loaded
\* completed in another order than the files were enumerated
CompletedOutOfOrder(k) ==
    \E f, g \in Range(FilesOf(k)) :
        /\ FileIndex(k, f) < FileIndex(k, g)
        /\ tasks[g].rank > 0
        /\ tasks[g].rank < tasks[f].rank

RECURSIVE ConcatItems(_, _)
ConcatItems(pages, k) ==
    IF k > Len(pages) THEN <<>> ELSE pages[k].items \o ConcatItems(pages, k + 1)
\* the least number of pages of size p that hold n items
PagesNeeded(n, p) == CHOOSE k \in 0..n : k * p >= n /\ (k = 0 \/ (k - 1) * p < n)

\* C16: for every item sequence of length N and every page size P > 0,
\* paginate returns exactly ceil(N/P) pages whose items, concatenated in page
\* order, are the input sequence, and the input sequence is not modified.
C16_PagesPartition ==
    /\ [](pgPc \in {"paginated", "urls"} =>
            /\ Len(pgPages) = PagesNeeded(Len(pgItems), pgSize)
            /\ ConcatItems(pgPages, 1) = pgItems
            /\ \A k \in 1..Len(pgPages) : Len(pgPages[k].items) \in 1..pgSize)
    /\ [][pgItems' = pgItems]_vars

\* C16 (witness): four items were paginated with page size 3: two pages, the
\* last one not full.
C16_Witness ==
    /\ pgPc = "paginated"
    /\ Len(pgItems) = 4 /\ pgSize = 3
    /\ Len(pgPages) = 2 /\ Len(pgPages[2].items) = 1

\* C17: for every page returned by paginate, pageNumber is its 1-based
\* position, totalItems the input length, isFirst holds exactly on page 1 and
\* isLast exactly on page totalPages, previousPage is pageNumber-1 and null
\* only on the first page, nextPage is pageNumber+1 and null only on the last
\* page, and the page's items are the input elements at the indices from
\* startIndex up to but not including endIndex.
C17_PageFields ==
    pgPc \in {"paginated", "urls"} =>
        \A k \in 1..Len(pgPages) :
            LET page == pgPages[k] IN
            /\ page.pageNumber = k
            /\ page.totalPages = Len(pgPages)
            /\ page.totalItems = Len(pgItems)
            /\ page.isFirst <=> (k = 1)
            /\ page.isLast <=> (k = Len(pgPages))
            /\ page.previousPage = (IF k = 1 THEN Null ELSE Num(k - 1))
            /\ page.nextPage = (IF k = Len(pgPages) THEN Null ELSE Num(k + 1))
            /\ page.startIndex = (k - 1) * pgSize
            /\ page.startIndex < page.endIndex /\ page.endIndex <= Len(pgItems)
            /\ page.items = [j \in 1..(page.endIndex - page.startIndex) |->
                                pgItems[page.startIndex + j]]

\* C17 (witness): three pages were returned, so there is a first, a middle and
\* a last page.
C17_Witness ==
    /\ pgPc = "paginated"
    /\ Len(pgPages) = 3
    /\ pgSize = 1

\* C18: getPaginationUrls gives url = basePath+baseUrl for page 1 and
\* basePath+baseUrl+"page/"+N+"/" for page N > 1; previousUrl is null on page
\* 1, the page-1 URL on page 2 (never a page/1/ URL) and the URL of page N-1
\* otherwise; nextUrl is the URL of page N+1, and null on the last page.
C18_PaginationUrls ==
    pgPc = "urls" =>
        LET UrlOf(n) == IF n = 1 THEN Str(pgBasePath \o pgBaseUrl)
                        ELSE Str(pgBasePath \o pgBaseUrl \o <<"page/", n, "/">>)
        IN /\ Len(pgUrls) = Len(pgPages)
           /\ \A k \in 1..Len(pgUrls) :
                /\ pgUrls[k].url = UrlOf(k)
                /\ pgUrls[k].previousUrl = (IF k = 1 THEN Null ELSE UrlOf(k - 1))
                /\ pgUrls[k].nextUrl = (IF k = Len(pgUrls) THEN Null ELSE UrlOf(k + 1))
                /\ k = 2 => pgUrls[k].previousUrl.s = pgBasePath \o pgBaseUrl

\* C18 (witness): the URLs of four pages under a base path were computed.
C18_Witness ==
    /\ pgPc = "urls"
    /\ Len(pgUrls) = 4
    /\ pgBasePath = <<"/sub">> /\ pgBaseUrl = <<"/blog/">>
    /\ pgUrls[3].previousUrl = Str(<<"/sub", "/blog/", "page/", 2, "/">>)


(***************************************************************************)
(* Properties of the sort of loadCollection                                *)
(***************************************************************************)
\* x is ordered after y by sortOrder: both are valid dates or both are
\* strings, and x is the later one in that order
ComparesAfter(x, y, sortOrder) ==
    /\ x.type = y.type
    /\ x.type \in {"date", "string"}
    /\ IF sortOrder = "desc" THEN x.v < y.v ELSE x.v > y.v

\* the result holds each item of the input exactly once
IsPermutation(result, n) ==
    /\ Len(result) = n
    /\ \A k \in 1..n : \E i \in 1..n : result[i] = k

\* C20: after the sort the items are those given, and of every two adjacent
\* items the earlier one does not compare after the later one by the sortBy
\* field in sortOrder, also when some items hold a value of another type
C20_SortedBySortOrder ==
    stDone =>
        /\ IsPermutation(stResult, Len(stKeys))
        /\ \A i \in 1..(Len(stResult) - 1) :
               ~ComparesAfter(stKeys[stResult[i]], stKeys[stResult[i + 1]], stOrder)

\* C20 witness: an array of dates and a value of another type, given out of
\* order, has been sorted ascending
C20_Witness ==
    /\ stDone
    /\ stOrder = "asc"
    /\ Len(stKeys) = MaxSortItems
    /\ \E i \in 1..Len(stKeys) : stKeys[i] = OtherVal
    /\ \E i \in 1..(Len(stKeys) - 1) : ComparesAfter(stKeys[i], stKeys[i + 1], stOrder)
    /\ stResult # [i \in 1..Len(stKeys) |-> i]


(***************************************************************************)
(* Properties of buildTagCollections                                       *)
(***************************************************************************)
\* the tag occurrences over all items of all collections
TagOccurrences ==
    {<<c, i, j>> \in (1..Len(CollectionSeq)) \X (1..2) \X (1..(MaxTags + 1)) :
        /\ i <= Len(tgCollections[CollectionSeq[c]])
        /\ j <= Len(tgCollections[CollectionSeq[c]][i].tags)}
TagAt(o) == tgCollections[CollectionSeq[o[1]]][o[2]].tags[o[3]]
\* lowercased and trimmed, written without the operators of the model
KeyOfTag(tag) ==
    IF tag \in {<<"css">>, <<"CSS">>, <<"css", Space>>} THEN <<"css">> ELSE tag
OccurrencesOf(k) == {o \in TagOccurrences : KeyOfTag(TagAt(o)) = k}
Earlier(o, p) ==
    \/ o[1] < p[1]
    \/ o[1] = p[1] /\ o[2] < p[2]
    \/ o[1] = p[1] /\ o[2] = p[2] /\ o[3] < p[3]
FirstOccurrenceOf(k) ==
    CHOOSE o \in OccurrencesOf(k) : \A p \in OccurrencesOf(k) : p = o \/ Earlier(o, p)

BucketsAgree ==
    /\ \A i \in 1..Len(tgTags) : tgTags[i].count = Len(tgTags[i].items)
    /\ \A o \in TagOccurrences :
           LET k == KeyOfTag(TagAt(o)) IN
           \E i \in 1..Len(tgTags) :
               /\ tgTags[i].key = k
               /\ Len(tgTags[i].items) = Cardinality(OccurrencesOf(k))
               /\ tgTags[i].name = TagAt(FirstOccurrenceOf(k))
               /\ \A j \in 1..Len(tgTags) : tgTags[j].key = k => j = i

\* C19: after buildTagCollections every bucket has count = length(items),
\* and the bucket keyed k has as many entries as there are tag occurrences
\* whose lowercased, trimmed form is k, under the name of the first of them
C19_AsStated == (tgDone /\ tgPc \in {"failed", "afterTagCollections"}) => ~tgThrew /\ BucketsAgree

\* C29 (as stated): in the map buildTagCollections returns, two different
\* buckets never have the same slug, also for tags that differ only by
\* whitespace versus hyphen
C29_AsStated ==
    tgPc = "afterTagCollections" =>
        \A i, j \in 1..Len(tgTags) : tgTags[i].slug = tgTags[j].slug => i = j

\* the same, for collections where no tag is the name of a property of
\* Object.prototype
C19_OwnKeysOnly ==
    (/\ tgPc \in {"failed", "afterTagCollections"}
     /\ \A o \in TagOccurrences : KeyOfTag(TagAt(o)) \notin ObjectPrototypeNames)
        => ~tgThrew /\ BucketsAgree

\* the keys of a sequence of records with a key field, and each key once
KeysOnce(seq, keys) ==
    /\ {seq[i] : i \in 1..Len(seq)} = keys
    /\ \A i, j \in 1..Len(seq) : seq[i] = seq[j] => i = j

\* C28 (as stated): in the site data buildSiteData returns, allTags, tags and
\* paginatedTags describe the same buckets, each once, also when a handler
\* of afterTagCollections added or removed a bucket in place
C28_AsStated ==
    tgPc = "returned" =>
        LET keys == {tgTags[i].key : i \in 1..Len(tgTags)} IN
        /\ KeysOnce(tgAllTags, keys)
        /\ KeysOnce([i \in 1..Len(tgPaginatedTags) |-> tgPaginatedTags[i].key], keys)

\* the same, when no handler changed the set of buckets
C28_Untouched ==
    (tgPc = "returned" /\ Len(tgTags) = Len(tgAllTags)
        /\ \A i \in 1..Len(tgTags) : tgTags[i].key # <<"extra">>) =>
        LET keys == {tgTags[i].key : i \in 1..Len(tgTags)} IN
        /\ KeysOnce(tgAllTags, keys)
        /\ KeysOnce([i \in 1..Len(tgPaginatedTags) |-> tgPaginatedTags[i].key], keys)

(***************************************************************************)
(* Properties of the item fields and of the collection walk                *)
(***************************************************************************)
\* the name parseContent reads slug and date from: that of the parent folder
\* when the file is named index, else that of the file
NameRead(file) == IF file.name = <<"index">> THEN file.parent ELSE file.name

\* C21: the slug of a loaded item is the front-matter slug when one is set
\* (and not empty); else what follows the YYYY-MM-DD- prefix of the file name,
\* or of the parent folder name when the file is named index; else that name
\* slugified. Its date is the front-matter date when set, else the date of
\* the YYYY-MM-DD prefix of that same name, else the current date.
C21_SlugAndDatePrecedence ==
    \A i \in 1..Len(ctItems) :
        LET file == ctFiles[i]
            item == ctItems[i]
            name == NameRead(file)
            dated == {p \in DatePrefixes : name # <<>> /\ name[1] = p.text}
        IN /\ IF ~file.slug.isNull /\ Len(file.slug.s) > 0
              THEN item.slug = file.slug.s
              ELSE IF dated # {} /\ Len(name) >= 3 /\ name[2] = "-"
              THEN <<name[1], "-">> \o item.slug = name
              ELSE item.slug = Slugify(name)
           /\ IF file.date # NoDate THEN item.date = file.date
              ELSE IF dated # {} THEN \E p \in dated : item.date = p.date
              ELSE item.date = Today

\* C21 (witness): a file named index in a folder with a date prefix, without
\* slug and date in its front matter, was loaded with the slug and the date of
\* the folder name
C21_Witness ==
    \E i \in 1..Len(ctItems) :
        /\ ctFiles[i].name = <<"index">>
        /\ ctFiles[i].parent = <<"2024-05-06", "-", "my">>
        /\ ctFiles[i].slug = Null
        /\ ctFiles[i].date = NoDate
        /\ ctItems[i].slug = <<"my">>
        /\ ctItems[i].date = [y |-> 2024, m |-> 5, d |-> 6]

\* C22 (as stated): every loaded item has a date and a slug that is not
\* empty, whatever the file name and the front matter
C22_AsStated ==
    \A i \in 1..Len(ctItems) :
        /\ ctItems[i].date # NoDate
        /\ ctItems[i].slug # <<>>

\* C23 (as stated): the permalink of every loaded item is its template (its
\* own, else that of the collection, else /:slug/) with every token replaced,
\* so that no token remains, and its url is the base path followed by it
C23_AsStated ==
    \A i \in 1..Len(ctItems) :
        LET file == ctFiles[i]
            item == ctItems[i]
            ofCollection == ctPermalinks[file.collection]
            template == IF TruthyString(file.permalink) THEN file.permalink.s
                        ELSE IF TruthyString(ofCollection) THEN ofCollection.s
                        ELSE <<"/", ":slug", "/">>
            expected == [k \in 1..Len(template) |->
                            CASE template[k] = ":slug" -> item.slug
                              [] template[k] = ":year" -> <<ToString(item.date.y)>>
                              [] template[k] = ":month" -> PadStart2(item.date.m)
                              [] template[k] = ":day" -> PadStart2(item.date.d)
                              [] OTHER -> <<template[k]>>]
            RECURSIVE Flat(_)
            Flat(s) == IF s = <<>> THEN <<>> ELSE Head(s) \o Flat(Tail(s))
        IN /\ item.permalink = Flat(expected)
           /\ \A k \in 1..Len(item.permalink) :
                 item.permalink[k] \notin {":slug", ":year", ":month", ":day"}
           /\ item.url = ctBasePath \o item.permalink

\* C26 (as stated): the base path of a collection path template is a prefix
\* of every date-expanded form of it, a template without tokens is returned
\* unchanged by both, and a markdown file stored under a date-expanded form
\* is found by the walk
C26_AsStated ==
    ctWalk.pc = "done" =>
        LET t == ctPathTemplate.s
            base == ctWalk.basePath.s
            expanded == ctWalk.storedIn.s
        IN /\ Len(base) <= Len(expanded)
           /\ SubSeq(expanded, 1, Len(base)) = base
           /\ (\A k \in 1..Len(t) : t[k] \notin {":year", ":month", ":day"})
                 => base = t /\ expanded = t
           /\ ctWalk.found

\* C30 (as stated): two different loaded items never have the same output
\* path, be they of one collection or of two
C30_AsStated ==
    \A i, j \in 1..Len(ctItems) :
        ctItems[i].outputPath = ctItems[j].outputPath => i = j

=============================================================================
